---------------------------- MODULE Spec2Model ----------------------------
(***************************************************************************)
(* A model of the deployment automation in src/ci:                         *)
(*                                                                         *)
(*   ci/lambda/lambdaupdate.py  the deploy handler of the pipeline         *)
(*   ci/bin/provision.py        the provision script and its helpers       *)
(*   ci/bin/terminate.py        the teardown script                        *)
(*   ci/bin/status.py           the status script                          *)
(*   ci/lambda/lambdabuild.py   the build handler of the pipeline          *)
(*                                                                         *)
(* The orchestration service (stacks and their statuses), the pipeline's   *)
(* job-reporting API, the artifact store and the web site are the          *)
(* environment: every answer they can give is a nondeterministic choice.   *)
(*                                                                         *)
(* The specifications share the variables:                                 *)
(*   SpecUpdate     update_stack (both versions) applied to every answer   *)
(*                  the service can give                                   *)
(*   SpecDeploy     one pipeline job driving lambda_handler, the web stack  *)
(*                  progressing underneath; LiveDeploy adds fairness       *)
(*   SpecProvision  one run of the provision script                        *)
(*   SpecWait       one of the two polling loops of provision.py on its    *)
(*                  own; LiveWait adds fairness                            *)
(*   SpecStore      ensure_bucket and upload_lambda_functions against the  *)
(*                  artifact store, another writer alongside               *)
(*   SpecOps        one run of terminate.py or of status.py                *)
(*   SpecBuild      one invocation of lambdabuild.lambda_handler           *)
(* A message of a service error is a sequence of words, so that the        *)
(* code's equality and substring tests are computed, not assumed.          *)
(***************************************************************************)
EXTENDS Integers, Sequences, FiniteSets, TLC

VARIABLES
    \* ---- the orchestration service
    webStack,       \* status of the web stack, or NoStack
    ciStack,        \* status of the CI stack, or NoStack
    \* ---- update_stack applied on its own (SpecUpdate)
    usResp,         \* version -> the service's answer to the last call, or NoResp
    usResult,       \* version -> what update_stack did with it
    \* ---- the pipeline and one invocation of lambdaupdate.lambda_handler
    job,            \* the pipeline's view of the deploy job
    pc,             \* position of the running invocation
    event,          \* the event of the running invocation
    apiOk,          \* whether the job-reporting API answers during this invocation
    answer,         \* the service's answer to this invocation's create or update call
    status,         \* local `status` (get_stack_status's result)
    existed,        \* what stack_exists returned in start_update_or_create
    were_updates,   \* local `were_updates`
    pending,        \* the report about to be put, and whether from inside the try
    reports,        \* results the pipeline accepted from this invocation, in order
    attempts,       \* number of job-reporting calls this invocation made
    calls,          \* service and store calls of this invocation, in order
    fn,             \* which of the two phase functions ran, and how it ended
    statusAtReport, \* status the web stack had when the last report was accepted
    \* ---- one run of the provision script
    ppc,            \* position of the script
    exit,           \* exit status of the process: "running", "0" or "1"
    exc,            \* the exception the script's except clause caught, or "none"
    config,         \* which of the required settings are present
    bucket,         \* the artifact bucket: whether it exists, its versioning
    steps,          \* the steps the script started, in order
    okCount,        \* how many of them succeeded
    p_status,       \* local `status` of __main__ (the CI stack's, before the update)
    p_were_updates, \* local `were_updates` of __main__
    p_exists,       \* what stack_exists(cf, ci_stack_name) returned in __main__
    p_calls,        \* the create and update calls __main__ made on the CI stack
    probeLog,       \* what each test_web_site call returned, in order
    \* ---- the polling loops of provision.py
    wait,           \* the running wait: function, stack, position, result, last status
    elapsed,        \* time.time() - start_time at the last reading of the clock
    seen,           \* stack -> status wait_for_stack_success last read when it returned True
    \* ---- ensure_bucket and upload_lambda_functions of provision.py
    eb,             \* the running ensure_bucket: position, head_bucket's answer, calls
    object,         \* the versions of the uploaded object, oldest first, by writer
    up,             \* the running upload_lambda_functions: position, what it wrote and returned
    \* ---- one run of terminate.py or of status.py
    tool,           \* which script runs: "terminate", "status" or "none"
    tpc,            \* position of the script
    texit,          \* exit status of the process: "running", "0" or "1"
    tcalls,         \* the calls the script made, in order
    confirm,        \* what the user types at the prompt of terminate.py
    web_stack,      \* local `web_stack`: "web", "None" or "unset"
    ciNamesWeb,     \* whether the CI stack's outputs have a WebStackName
    atStart,        \* the stacks and the bucket when the script started
    found,          \* what test_web_site returned in status.py, or "unset"
    \* ---- one invocation of lambdabuild.lambda_handler
    bpc,            \* position of the invocation
    bevent,         \* its event
    bapiOk,         \* whether the job-reporting API answers during it
    buploads,       \* the artifacts it uploaded, in order
    breports,       \* results the pipeline accepted from it, in order
    battempts,      \* number of job-reporting calls it made
    braised,        \* the exception its try block raised, or "none"
    \* ---- the deploy handler's invocations other than the one above
    deployed        \* whether one of them started an operation on the web stack

serviceVars == <<webStack, ciStack>>
updateVars  == <<usResp, usResult>>
deployVars  == <<job, pc, event, apiOk, answer, status, existed, were_updates, pending,
                 reports, attempts, calls, fn, statusAtReport>>
provLocals  == <<ppc, exit, exc, config, steps, okCount, p_status, p_were_updates,
                 p_exists, p_calls, probeLog>>
provVars    == <<provLocals, bucket>>
waitVars    == <<wait, elapsed, seen>>
scriptVars  == <<provVars, waitVars>>
storeVars   == <<eb, object, up>>
opsVars     == <<tool, tpc, texit, tcalls, confirm, web_stack, ciNamesWeb, atStart, found>>
buildVars   == <<bpc, bevent, bapiOk, buploads, breports, battempts, braised>>
toolVars    == <<storeVars, opsVars, buildVars, deployed>>
vars == <<serviceVars, updateVars, deployVars, scriptVars, toolVars>>

-----------------------------------------------------------------------------
(* The orchestration service: stacks and their lifecycle statuses.         *)

NoStack == "NONE"

InProgressStatuses ==
    {"CREATE_IN_PROGRESS", "ROLLBACK_IN_PROGRESS", "DELETE_IN_PROGRESS",
     "UPDATE_IN_PROGRESS", "UPDATE_COMPLETE_CLEANUP_IN_PROGRESS",
     "UPDATE_ROLLBACK_IN_PROGRESS",
     "UPDATE_ROLLBACK_COMPLETE_CLEANUP_IN_PROGRESS"}

SettledStatuses ==
    {"CREATE_COMPLETE", "CREATE_FAILED", "ROLLBACK_COMPLETE", "ROLLBACK_FAILED",
     "DELETE_FAILED", "UPDATE_COMPLETE", "UPDATE_ROLLBACK_COMPLETE",
     "UPDATE_ROLLBACK_FAILED", "REVIEW_IN_PROGRESS"}

StackStatuses == InProgressStatuses \cup SettledStatuses

StackStates == StackStatuses \cup {NoStack}

\* The statuses an operation in flight can move to next.
NextStatuses(s) ==
    CASE s = "CREATE_IN_PROGRESS" ->
             {"CREATE_COMPLETE", "CREATE_FAILED", "ROLLBACK_IN_PROGRESS"}
      [] s = "ROLLBACK_IN_PROGRESS" -> {"ROLLBACK_COMPLETE", "ROLLBACK_FAILED"}
      [] s = "UPDATE_IN_PROGRESS" ->
             {"UPDATE_COMPLETE_CLEANUP_IN_PROGRESS", "UPDATE_ROLLBACK_IN_PROGRESS"}
      [] s = "UPDATE_COMPLETE_CLEANUP_IN_PROGRESS" -> {"UPDATE_COMPLETE"}
      [] s = "UPDATE_ROLLBACK_IN_PROGRESS" ->
             {"UPDATE_ROLLBACK_COMPLETE_CLEANUP_IN_PROGRESS", "UPDATE_ROLLBACK_FAILED"}
      [] s = "UPDATE_ROLLBACK_COMPLETE_CLEANUP_IN_PROGRESS" ->
             {"UPDATE_ROLLBACK_COMPLETE"}
      [] s = "DELETE_IN_PROGRESS" -> {NoStack, "DELETE_FAILED"}
      [] OTHER -> {}

-----------------------------------------------------------------------------
(* Answers of the service to a call.  kind is "ok", "ClientError" (a       *)
(* botocore ClientError carrying a message) or "OtherError" (any other     *)
(* exception: no endpoint, bad parameters); msg is the message's words.    *)

Answer(k, m) == [kind |-> k, msg |-> m]

Ok == Answer("ok", <<>>)

OtherError == Answer("OtherError", <<>>)

ClientError(m) == Answer("ClientError", m)

NoUpdatesMsg == <<"No", "updates", "are", "to", "be", "performed.">>

DoesNotExistWords == <<"does", "not", "exist">>

DoesNotExistMsg == <<"Stack", "with", "id", "web", "does", "not", "exist">>

AlreadyExistsMsg == <<"Stack", "web", "already", "exists">>

CannotUpdateMsg == <<"Stack", "is", "in", "a", "state", "that", "can", "not", "be", "updated">>

RateExceededMsg == <<"Rate", "exceeded">>

AccessDeniedMsg == <<"User", "is", "not", "authorized", "to", "perform", "this", "action">>

TemplateErrorMsg == <<"Template", "format", "error">>

\* Near misses of the "no updates" message: a prefix of it and an extension.
NoUpdatesShortMsg == <<"No", "updates", "are", "to", "be">>

NoUpdatesLongMsg == NoUpdatesMsg \o <<"Stack", "web">>

\* Errors the service can raise whatever the stack's state.
Faults == {ClientError(RateExceededMsg), ClientError(AccessDeniedMsg), OtherError}

\* Statuses in which the service may accept an update.
ServiceUpdatable ==
    {"CREATE_COMPLETE", "ROLLBACK_COMPLETE", "UPDATE_COMPLETE",
     "UPDATE_ROLLBACK_COMPLETE"}

\* Every answer cf.update_stack can give for a stack in state s.
UpdateAnswers(s) ==
    Faults \cup
    (IF s = NoStack THEN {ClientError(DoesNotExistMsg)}
     ELSE IF s \in ServiceUpdatable
          THEN {Ok, ClientError(NoUpdatesMsg), ClientError(TemplateErrorMsg),
                ClientError(CannotUpdateMsg)}
          ELSE {ClientError(CannotUpdateMsg)})

\* Every answer cf.create_stack can give for a stack in state s.
CreateAnswers(s) ==
    Faults \cup
    (IF s = NoStack THEN {Ok, ClientError(TemplateErrorMsg)}
     ELSE {ClientError(AlreadyExistsMsg)})

\* Every answer cf.describe_stacks can give for a stack in state s.
DescribeAnswers(s) ==
    Faults \cup
    (IF s = NoStack THEN {ClientError(DoesNotExistMsg)} ELSE {Ok})

\* Whether the words of `part` occur in `whole`, side by side and in order:
\* Python's `part in whole` on the message text.
Contains(whole, part) ==
    \E i \in 0..(Len(whole) - Len(part)) :
        \A j \in 1..Len(part) : whole[i + j] = part[j]

-----------------------------------------------------------------------------
(* update_stack, the two versions, as functions of the service's answer.   *)
(* The result is "True", "False" or "raise".                               *)

update_stack_prefix(a) ==
    IF a.kind = "ok" THEN "True"
    ELSE IF a.kind = "ClientError"
         THEN IF Contains(a.msg, NoUpdatesShortMsg) THEN "False" ELSE "raise"
         ELSE "raise"

\* provision.update_stack
update_stack(a) ==
    IF a.kind = "ok" THEN "True"
    ELSE IF a.kind = "ClientError"
         THEN IF a.msg = NoUpdatesMsg THEN "False" ELSE "raise"
         ELSE "raise"

\* lambdaupdate.update_stack
lambda_update_stack_swallow(a) ==
    IF a.kind = "ok" THEN "True"
    ELSE IF a.kind = "ClientError" THEN "False" ELSE "raise"

lambda_update_stack(a) ==
    IF a.kind = "ok" THEN "True"
    ELSE IF a.kind = "ClientError"
         THEN IF a.msg = NoUpdatesMsg THEN "False" ELSE "raise"
         ELSE "raise"

Versions == {"provision", "lambda"}

NoResp == Answer("none", <<>>)

\* Every answer update_stack can meet, the near misses of the message included.
AllUpdateAnswers ==
    UNION {UpdateAnswers(s) : s \in StackStates}
    \cup {ClientError(NoUpdatesShortMsg), ClientError(NoUpdatesLongMsg)}

InitUpdate ==
    /\ usResp = [v \in Versions |-> NoResp]
    /\ usResult = [v \in Versions |-> "none"]

\* One call of update_stack: the service answers, the function returns or raises.
CallUpdateStack(v) ==
    \E a \in AllUpdateAnswers :
        /\ usResp' = [usResp EXCEPT ![v] = a]
        /\ usResult' = [usResult EXCEPT ![v] =
               IF v = "provision" THEN update_stack(a) ELSE lambda_update_stack(a)]
        /\ UNCHANGED <<serviceVars, deployVars, scriptVars, toolVars>>

-----------------------------------------------------------------------------
(* The deploy handler: lambdaupdate.lambda_handler under one pipeline job. *)

RequiredItems ==
    {"build_artifact", "vpc_id", "subnet_id_a", "appname", "keyname",
     "web_stack_name", "template_artifact", "template_file"}

\* An event the handler finds nothing wrong with.
WellFormed ==
    [hasJobId |-> TRUE, hasData |-> TRUE, decodable |-> TRUE,
     keys |-> RequiredItems, hasArtifacts |-> TRUE, token |-> FALSE,
     templateArtifact |-> TRUE, buildArtifact |-> TRUE]

\* Events of the pipeline: a job id always, and at most one thing wrong.  The
\* handler stops at the first thing wrong, so one fault per event reaches
\* every path.
PipelineEvents ==
    {WellFormed,
     [WellFormed EXCEPT !.hasData = FALSE],
     [WellFormed EXCEPT !.decodable = FALSE],
     [WellFormed EXCEPT !.hasArtifacts = FALSE],
     [WellFormed EXCEPT !.templateArtifact = FALSE],
     [WellFormed EXCEPT !.buildArtifact = FALSE]}
    \cup {[WellFormed EXCEPT !.keys = RequiredItems \ {i}] : i \in RequiredItems}

\* Events that carry no job id: an invocation by hand, a test event.
DirectEvents ==
    {[WellFormed EXCEPT !.hasJobId = FALSE, !.token = t] : t \in BOOLEAN}

\* get_user_params: "ok", or "raise" when the JSON cannot be decoded or lacks
\* a required item.
get_user_params_decode_only(ev) == IF ~ev.decodable THEN "raise" ELSE "ok"

get_user_params(ev) ==
    IF ~ev.decodable THEN "raise"
    ELSE IF \E i \in RequiredItems : i \notin ev.keys THEN "raise"
    ELSE "ok"

\* 'continuationToken' in job_data
IsContinuationNever(ev) == FALSE

IsContinuation(ev) == ev.token

\* lambdaupdate.stack_exists on the answer of describe_stacks.
lambda_stack_exists(a) ==
    IF a.kind = "ok" THEN "True"
    ELSE IF a.kind = "ClientError" /\ Contains(a.msg, DoesNotExistWords) THEN "False"
    ELSE "raise"

\* The statuses from which start_update_or_create goes on to update.
LambdaEligibleNarrow == {"CREATE_COMPLETE", "ROLLBACK_COMPLETE", "UPDATE_COMPLETE"}

LambdaEligible ==
    {"CREATE_COMPLETE", "ROLLBACK_COMPLETE", "UPDATE_COMPLETE",
     "UPDATE_ROLLBACK_COMPLETE"}

\* Where start_update_or_create goes after failing the job for an ineligible
\* status: the `return`.
AfterIneligibleFallThrough == "update"

AfterIneligible == "done"

\* The statuses check_stack_update_status continues the job on.
LambdaInProgress ==
    {"UPDATE_IN_PROGRESS", "UPDATE_ROLLBACK_IN_PROGRESS",
     "UPDATE_ROLLBACK_COMPLETE_CLEANUP_IN_PROGRESS", "CREATE_IN_PROGRESS",
     "ROLLBACK_IN_PROGRESS"}

\* The report check_stack_update_status puts for a status.
check_verdict_patient(s) ==
    IF s \in {"UPDATE_COMPLETE", "CREATE_COMPLETE"} THEN "success"
    ELSE IF s \in LambdaInProgress \cup {"ROLLBACK_COMPLETE"} THEN "continue"
    ELSE "failure"

check_verdict_rolled_back(s) ==
    IF s \in {"UPDATE_COMPLETE", "CREATE_COMPLETE", "UPDATE_ROLLBACK_COMPLETE"} THEN "success"
    ELSE IF s \in LambdaInProgress THEN "continue"
    ELSE "failure"

check_verdict_optimistic(s) ==
    IF s \in {"UPDATE_COMPLETE", "CREATE_COMPLETE"} THEN "success" ELSE "continue"

check_verdict(s) ==
    IF s \in {"UPDATE_COMPLETE", "CREATE_COMPLETE"} THEN "success"
    ELSE IF s \in LambdaInProgress THEN "continue"
    ELSE "failure"

\* What a result the pipeline accepted makes of the job.
JobAfter(kind) ==
    CASE kind = "success" -> "succeeded"
      [] kind = "failure" -> "failed"
      [] kind = "continue" -> "continued"

FinalJob == {"succeeded", "failed"}

Report(kind, inTry, next) == [kind |-> kind, inTry |-> inTry, next |-> next]

NoReport == Report("none", TRUE, "done")

NoFn == [name |-> "none", ended |-> "none"]

\* The handler is invoked with event ev; reporting works during it or not.
Invoke(ev, ok) ==
    /\ pc \in {"idle", "done", "raised"}
    /\ pc' = "entry"
    /\ event' = ev
    /\ apiOk' = ok
    /\ answer' = NoResp
    /\ status' = "unset"
    /\ existed' = "unset"
    /\ were_updates' = "unset"
    /\ pending' = NoReport
    /\ reports' = <<>>
    /\ attempts' = 0
    /\ calls' = <<>>
    /\ fn' = NoFn
    /\ statusAtReport' = "unset"
    /\ UNCHANGED <<job, serviceVars, updateVars, toolVars, scriptVars>>

\* The pipeline invokes the handler for its job, with the continuation token
\* when the job was continued.
PipelineInvoke ==
    /\ job \in {"new", "continued"}
    /\ \E ev \in PipelineEvents, ok \in BOOLEAN :
           Invoke([ev EXCEPT !.token = (job = "continued")], ok)

\* The same, with the job-reporting API up.
PipelineInvokeReliable ==
    /\ job \in {"new", "continued"}
    /\ \E ev \in PipelineEvents :
           Invoke([ev EXCEPT !.token = (job = "continued")], TRUE)

\* Somebody invokes the handler with an event that carries no job id.
DirectInvoke == \E ev \in DirectEvents, ok \in BOOLEAN : Invoke(ev, ok)

\* lambda_handler, from its first line to the branch on the continuation
\* token and, in the first phase, find_artifact of the template artifact.
LH_Entry ==
    /\ pc = "entry"
    /\ IF \/ ~event.hasJobId
          \/ ~event.hasData
          \/ get_user_params(event) = "raise"
          \/ ~event.hasArtifacts
       THEN pc' = "except" /\ fn' = fn
       ELSE IF IsContinuation(event)
            THEN /\ pc' = "check_status"
                 /\ fn' = [name |-> "check_stack_update_status", ended |-> "running"]
            ELSE IF ~event.templateArtifact
                 THEN pc' = "except" /\ fn' = fn
                 ELSE pc' = "download" /\ fn' = fn
    /\ UNCHANGED <<job, event, apiOk, answer, status, existed, were_updates, pending,
                   reports, attempts, calls, statusAtReport, serviceVars, updateVars, toolVars, scriptVars>>

\* setup_s3_client, get_template (the download and the unzip succeed or raise)
\* and assemble_web_stack_parameters, the argument of start_update_or_create.
LH_Download ==
    /\ pc = "download"
    /\ calls' = Append(calls, "download_file")
    /\ \E got \in BOOLEAN :
           IF got /\ event.buildArtifact
           THEN /\ pc' = "stack_exists"
                /\ fn' = [name |-> "start_update_or_create", ended |-> "running"]
           ELSE pc' = "except" /\ fn' = fn
    /\ UNCHANGED <<job, event, apiOk, answer, status, existed, were_updates, pending,
                   reports, attempts, statusAtReport, serviceVars, updateVars, toolVars, scriptVars>>

\* start_update_or_create: stack_exists(stack)
SUC_StackExists ==
    /\ pc = "stack_exists"
    /\ calls' = Append(calls, "describe_stacks")
    /\ \E a \in DescribeAnswers(webStack) :
           /\ existed' = lambda_stack_exists(a)
           /\ pc' = CASE existed' = "True" -> "get_status"
                      [] existed' = "False" -> "create"
                      [] OTHER -> "except"
           /\ fn' = IF existed' = "raise" THEN [fn EXCEPT !.ended = "raised"] ELSE fn
    /\ UNCHANGED <<job, event, apiOk, answer, status, were_updates, pending,
                   reports, attempts, statusAtReport, serviceVars, updateVars, toolVars, scriptVars>>

\* start_update_or_create: get_stack_status(stack) and the eligibility test
SUC_GetStatus ==
    /\ pc = "get_status"
    /\ calls' = Append(calls, "describe_stacks")
    /\ \E a \in DescribeAnswers(webStack) :
           IF a.kind = "ok"
           THEN /\ status' = webStack
                /\ fn' = fn
                /\ IF status' \notin LambdaEligible
                   THEN /\ pending' = Report("failure", TRUE, AfterIneligible)
                        /\ pc' = "report"
                   ELSE /\ pending' = pending
                        /\ pc' = "update"
           ELSE /\ pc' = "except"
                /\ fn' = [fn EXCEPT !.ended = "raised"]
                /\ UNCHANGED <<status, pending>>
    /\ UNCHANGED <<job, event, apiOk, answer, existed, were_updates,
                   reports, attempts, statusAtReport, serviceVars, updateVars, toolVars, scriptVars>>

\* start_update_or_create: update_stack and the branch on were_updates
SUC_Update ==
    /\ pc = "update"
    /\ calls' = Append(calls, "update_stack")
    /\ \E a \in UpdateAnswers(webStack) :
           /\ answer' = a
           /\ webStack' = IF a.kind = "ok" THEN "UPDATE_IN_PROGRESS" ELSE webStack
           /\ were_updates' = lambda_update_stack(a)
           /\ CASE were_updates' = "True" ->
                     /\ pending' = Report("continue", TRUE, "done")
                     /\ pc' = "report"
                     /\ fn' = fn
                [] were_updates' = "False" ->
                     /\ pending' = Report("success", TRUE, "done")
                     /\ pc' = "report"
                     /\ fn' = fn
                [] OTHER ->
                     /\ pending' = pending
                     /\ pc' = "except"
                     /\ fn' = [fn EXCEPT !.ended = "raised"]
    /\ UNCHANGED <<job, event, apiOk, status, existed, reports, attempts,
                   statusAtReport, ciStack, updateVars, toolVars, scriptVars>>

\* start_update_or_create: create_stack, then continue the job
SUC_Create ==
    /\ pc = "create"
    /\ calls' = Append(calls, "create_stack")
    /\ \E a \in CreateAnswers(webStack) :
           /\ answer' = a
           /\ IF a.kind = "ok"
              THEN /\ webStack' = "CREATE_IN_PROGRESS"
                   /\ pending' = Report("continue", TRUE, "done")
                   /\ pc' = "report"
                   /\ fn' = fn
              ELSE /\ webStack' = webStack
                   /\ pending' = pending
                   /\ pc' = "except"
                   /\ fn' = [fn EXCEPT !.ended = "raised"]
    /\ UNCHANGED <<job, event, apiOk, status, existed, were_updates, reports,
                   attempts, statusAtReport, ciStack, updateVars, toolVars, scriptVars>>

\* check_stack_update_status: get_stack_status(stack) and the verdict
CSUS_GetStatus ==
    /\ pc = "check_status"
    /\ calls' = Append(calls, "describe_stacks")
    /\ \E a \in DescribeAnswers(webStack) :
           IF a.kind = "ok"
           THEN /\ status' = webStack
                /\ pending' = Report(check_verdict(status'), TRUE, "done")
                /\ pc' = "report"
                /\ fn' = fn
           ELSE /\ pc' = "except"
                /\ fn' = [fn EXCEPT !.ended = "raised"]
                /\ UNCHANGED <<status, pending>>
    /\ UNCHANGED <<job, event, apiOk, answer, existed, were_updates,
                   reports, attempts, statusAtReport, serviceVars, updateVars, toolVars, scriptVars>>

\* put_job_success, put_job_failure, continue_job_later: one call of the
\* pipeline's job-reporting API, which accepts the result or raises.
PutJobResult ==
    /\ pc = "report"
    /\ attempts' = attempts + 1
    /\ IF apiOk
       THEN /\ reports' = Append(reports, pending.kind)
            /\ job' = JobAfter(pending.kind)
            /\ statusAtReport' = webStack
            /\ pc' = pending.next
            /\ fn' = IF pending.inTry /\ pending.next = "done"
                     THEN [fn EXCEPT !.ended = "returned"] ELSE fn
       ELSE /\ pc' = IF pending.inTry THEN "except" ELSE "raised"
            /\ fn' = IF pending.inTry THEN [fn EXCEPT !.ended = "raised"] ELSE fn
            /\ UNCHANGED <<reports, job, statusAtReport>>
    /\ UNCHANGED <<event, apiOk, answer, status, existed, were_updates, pending,
                   calls, serviceVars, updateVars, toolVars, scriptVars>>

\* lambda_handler's except clause: put_job_failure(job_id, ...), where job_id
\* is unbound when the event carried none.
LH_Except ==
    /\ pc = "except"
    /\ IF event.hasJobId
       THEN pc' = "report" /\ pending' = Report("failure", FALSE, "done")
       ELSE pc' = "raised" /\ pending' = pending
    /\ UNCHANGED <<job, event, apiOk, answer, status, existed, were_updates,
                   reports, attempts, calls, fn, statusAtReport, serviceVars,
                   updateVars, toolVars, scriptVars>>

HandlerStep ==
    \/ LH_Entry
    \/ LH_Download
    \/ SUC_StackExists
    \/ SUC_GetStatus
    \/ SUC_Update
    \/ SUC_Create
    \/ CSUS_GetStatus
    \/ PutJobResult
    \/ LH_Except

\* The service moves the web stack's operation in flight one status on.
WebStackProgress ==
    /\ \E s \in NextStatuses(webStack) : webStack' = s
    /\ UNCHANGED <<ciStack, updateVars, toolVars, deployVars, scriptVars>>

\* Another actor (the terminate script, an operator) deletes the web stack.
WebStackDelete ==
    /\ webStack \notin {NoStack, "DELETE_IN_PROGRESS"}
    /\ webStack' = "DELETE_IN_PROGRESS"
    /\ UNCHANGED <<ciStack, updateVars, toolVars, deployVars, scriptVars>>

-----------------------------------------------------------------------------
(* provision.py: the polling loops.  Time is in seconds; `elapsed` is      *)
(* time.time() - start_time as last read.  A status query or a site probe  *)
(* answers at once or takes MaxLatency seconds.                            *)

\* timeout=600 of wait_for_stack_success and wait_for_stack_existence
Timeout == 600

\* time.sleep(15)
PollInterval == 15

\* time.time() - start_time > 600 in the site-probe loop
ProbeTimeout == 600

\* sleep(10) in the site-probe loop
ProbePause == 10

MaxLatency == 5

Latencies == {0, MaxLatency}

\* The clock stops counting here, beyond every reading the loops act on.
ClockCap == 700

Advance(t, d) == IF t + d > ClockCap THEN ClockCap ELSE t + d

StackOf(name) == IF name = "ci" THEN ciStack ELSE webStack

\* provision.stack_exists on the answer of describe_stacks.
stack_exists(a) ==
    IF a.kind = "ok" THEN "True"
    ELSE IF a.kind = "ClientError" /\ Contains(a.msg, DoesNotExistWords) THEN "False"
    ELSE "raise"

\* The statuses wait_for_stack_success keeps waiting on.
ProvisionInProgress ==
    {"UPDATE_IN_PROGRESS", "UPDATE_ROLLBACK_IN_PROGRESS",
     "UPDATE_ROLLBACK_COMPLETE_CLEANUP_IN_PROGRESS", "CREATE_IN_PROGRESS",
     "ROLLBACK_IN_PROGRESS"}

\* One pass of wait_for_stack_success's loop on status s read at time t:
\* return True, return False, or sleep and poll again.
wait_success_verdict_lenient(s, t) ==
    IF s \in {"UPDATE_COMPLETE", "CREATE_COMPLETE", "UPDATE_ROLLBACK_COMPLETE"} THEN "True"
    ELSE IF s \in ProvisionInProgress
         THEN IF t > Timeout THEN "False" ELSE "sleep"
         ELSE "False"

wait_success_verdict_forever(s, t) ==
    IF s \in {"UPDATE_COMPLETE", "CREATE_COMPLETE"} THEN "True"
    ELSE IF s \in ProvisionInProgress THEN "sleep"
    ELSE "False"

wait_success_verdict(s, t) ==
    IF s \in {"UPDATE_COMPLETE", "CREATE_COMPLETE"} THEN "True"
    ELSE IF s \in ProvisionInProgress
         THEN IF t > Timeout THEN "False" ELSE "sleep"
         ELSE "False"

\* One pass of wait_for_stack_existence's loop on what stack_exists returned
\* at time t.
wait_existence_verdict(x, t) ==
    IF x = "True" THEN "True"
    ELSE IF x = "raise" THEN "raise"
    ELSE IF t > Timeout THEN "False" ELSE "sleep"

Waiting(f, n) ==
    [fn |-> f, stack |-> n, pc |-> "poll", result |-> "none", status |-> "unset"]

NoWait ==
    [fn |-> "none", stack |-> "none", pc |-> "idle", result |-> "none",
     status |-> "unset"]

NothingSeen == [n \in {"ci", "web"} |-> "unset"]

\* wait_for_stack_success: get_stack_status, the verdict, the return.
W_PollSuccess ==
    /\ wait.pc = "poll" /\ wait.fn = "success"
    /\ \E d \in Latencies, a \in DescribeAnswers(StackOf(wait.stack)) :
           /\ elapsed' = Advance(elapsed, d)
           /\ IF a.kind = "ok"
              THEN LET s == StackOf(wait.stack)
                       v == wait_success_verdict(s, elapsed')
                   IN /\ wait' = [wait EXCEPT !.status = s,
                                              !.pc = IF v = "sleep" THEN "sleep" ELSE "returned",
                                              !.result = IF v = "sleep" THEN "none" ELSE v]
                      /\ seen' = IF v = "True" THEN [seen EXCEPT ![wait.stack] = s]
                                 ELSE seen
              ELSE /\ wait' = [wait EXCEPT !.pc = "raised"]
                   /\ seen' = seen
    /\ UNCHANGED <<serviceVars, updateVars, toolVars, deployVars, provVars>>

\* wait_for_stack_existence: stack_exists, the timeout test, the return.
W_PollExistence ==
    /\ wait.pc = "poll" /\ wait.fn = "existence"
    /\ \E d \in Latencies, a \in DescribeAnswers(StackOf(wait.stack)) :
           /\ elapsed' = Advance(elapsed, d)
           /\ LET v == wait_existence_verdict(stack_exists(a), elapsed')
              IN wait' = [wait EXCEPT !.pc = CASE v = "sleep" -> "sleep"
                                               [] v = "raise" -> "raised"
                                               [] OTHER -> "returned",
                                      !.result = IF v \in {"True", "False"} THEN v
                                                 ELSE "none"]
    /\ UNCHANGED <<seen, serviceVars, updateVars, toolVars, deployVars, provVars>>

\* time.sleep(15) of either loop
W_Sleep ==
    /\ wait.pc = "sleep"
    /\ elapsed' = Advance(elapsed, PollInterval)
    /\ wait' = [wait EXCEPT !.pc = "poll"]
    /\ UNCHANGED <<seen, serviceVars, updateVars, toolVars, deployVars, provVars>>

WaitStep == W_PollSuccess \/ W_PollExistence \/ W_Sleep

-----------------------------------------------------------------------------
(* provision.py: __main__, one run of the script.                          *)

AllSet == [region |-> TRUE, keyname |-> TRUE, user |-> TRUE, token |-> TRUE]

\* The settings at hand: all of them, or all but one.
Configs ==
    {AllSet, [AllSet EXCEPT !.region = FALSE], [AllSet EXCEPT !.keyname = FALSE],
     [AllSet EXCEPT !.user = FALSE], [AllSet EXCEPT !.token = FALSE]}

\* assert_config: "exit1" or "ok".  Its first test compares the function
\* aws_region, not its result, with None, which is never true.
assert_config(cfg) ==
    IF ~cfg.keyname \/ ~cfg.user \/ ~cfg.token THEN "exit1" ELSE "ok"

BucketStates ==
    {[exists |-> FALSE, versioning |-> "unset"]}
    \cup {[exists |-> TRUE, versioning |-> v] : v \in {"unset", "Suspended", "Enabled"}}

\* The statuses from which __main__ goes on to update the CI stack.
ProvisionEligibleWide ==
    {"CREATE_COMPLETE", "ROLLBACK_COMPLETE", "UPDATE_COMPLETE", "UPDATE_ROLLBACK_COMPLETE"}

ProvisionEligible == {"CREATE_COMPLETE", "ROLLBACK_COMPLETE", "UPDATE_COMPLETE"}

\* What __main__ does when a wait returned False: sys.exit(1).
OnWaitFalseGoOn == "go_on"

OnWaitFalse == "exit1"

\* Whether the name `sleep` is bound in provision.py: the module imports
\* time, and nothing from it.
SleepIsBound == FALSE

\* sys.exit(1): SystemExit is no Exception, the except clause lets it pass.
SysExit1 ==
    /\ ppc' = "exited"
    /\ exit' = "1"
    /\ exc' = exc

\* An exception inside the try: the except clause prints it and the script
\* ends there, with exit status 0.
Caught(what) ==
    /\ ppc' = "exited"
    /\ exit' = "0"
    /\ exc' = what

\* The end of the try block is reached.
FallOffEnd ==
    /\ ppc' = "exited"
    /\ exit' = "0"
    /\ exc' = exc

Goto(p) ==
    /\ ppc' = p
    /\ exit' = exit
    /\ exc' = exc

\* assert_config, the clients and the bucket's name.  Without a region the
\* cloudformation client cannot be made (NoRegionError), nor the bucket's name
\* (aws_region() is None): the except clause catches either.
P_Start ==
    /\ ppc = "start"
    /\ IF assert_config(config) = "exit1" THEN SysExit1
       ELSE IF ~config.region THEN Caught("NoRegionError")
       ELSE \E account \in BOOLEAN : IF account THEN Goto("ensure_bucket") ELSE SysExit1
    /\ UNCHANGED <<config, bucket, steps, okCount, p_status, p_were_updates, p_exists, p_calls, probeLog,
                   waitVars, serviceVars, updateVars, toolVars, deployVars>>

\* ensure_bucket: on return the bucket exists with versioning enabled
P_EnsureBucket ==
    /\ ppc = "ensure_bucket"
    /\ steps' = Append(steps, "ensure_bucket")
    /\ \E ok \in BOOLEAN :
           IF ok
           THEN /\ bucket' = [exists |-> TRUE, versioning |-> "Enabled"]
                /\ okCount' = okCount + 1
                /\ Goto("upload")
           ELSE /\ UNCHANGED <<bucket, okCount>>
                /\ Caught("ClientError")
    /\ UNCHANGED <<config, p_status, p_were_updates, p_exists, p_calls, probeLog,
                   waitVars, serviceVars, updateVars, toolVars, deployVars>>

\* upload_lambda_functions, the template file and assemble_ci_stack_parameters
P_Upload ==
    /\ ppc = "upload"
    /\ steps' = Append(steps, "upload")
    /\ \E ok \in BOOLEAN :
           IF ok
           THEN IF assert_config(config) = "exit1"
                THEN okCount' = okCount /\ SysExit1
                ELSE okCount' = okCount + 1 /\ Goto("ci_exists")
           ELSE okCount' = okCount /\ Caught("S3UploadFailedError")
    /\ UNCHANGED <<config, bucket, p_status, p_were_updates, p_exists, p_calls, probeLog,
                   waitVars, serviceVars, updateVars, toolVars, deployVars>>

\* stack_exists(cf, ci_stack_name)
P_CiExists ==
    /\ ppc = "ci_exists"
    /\ steps' = Append(steps, "ci_stack")
    /\ \E a \in DescribeAnswers(ciStack) :
           /\ p_exists' = stack_exists(a)
           /\ CASE p_exists' = "True" -> Goto("ci_status")
                [] p_exists' = "False" -> Goto("ci_create")
                [] OTHER -> Caught("ClientError")
    /\ UNCHANGED <<config, bucket, okCount, p_status, p_were_updates, p_calls, probeLog,
                   waitVars, serviceVars, updateVars, toolVars, deployVars>>

\* get_stack_status(cf, ci_stack_name) and the eligibility test
P_CiStatus ==
    /\ ppc = "ci_status"
    /\ \E a \in DescribeAnswers(ciStack) :
           IF a.kind = "ok"
           THEN /\ p_status' = ciStack
                /\ IF p_status' \notin ProvisionEligible THEN SysExit1
                   ELSE Goto("ci_update")
           ELSE /\ p_status' = p_status
                /\ Caught("ClientError")
    /\ UNCHANGED <<config, bucket, steps, okCount, p_were_updates, p_exists, p_calls, probeLog,
                   waitVars, serviceVars, updateVars, toolVars, deployVars>>

\* update_stack on the CI stack; the wait follows when there were updates
P_CiUpdate ==
    /\ ppc = "ci_update"
    /\ \E a \in UpdateAnswers(ciStack) :
           /\ ciStack' = IF a.kind = "ok" THEN "UPDATE_IN_PROGRESS" ELSE ciStack
           /\ p_were_updates' = update_stack(a)
           /\ p_calls' = Append(p_calls, "update_stack")
           /\ CASE p_were_updates' = "True" ->
                     /\ okCount' = okCount + 1
                     /\ steps' = Append(steps, "ci_wait")
                     /\ wait' = Waiting("success", "ci")
                     /\ elapsed' = 0
                     /\ Goto("ci_wait")
                [] p_were_updates' = "False" ->
                     /\ okCount' = okCount + 1
                     /\ UNCHANGED <<steps, wait, elapsed>>
                     /\ Goto("ci_outputs")
                [] OTHER ->
                     /\ UNCHANGED <<okCount, steps, wait, elapsed>>
                     /\ Caught("Exception")
    /\ UNCHANGED <<config, bucket, p_status, p_exists, probeLog, seen, webStack,
                   updateVars, toolVars, deployVars>>

\* create_stack of the CI stack, and the wait that follows
P_CiCreate ==
    /\ ppc = "ci_create"
    /\ p_calls' = Append(p_calls, "create_stack")
    /\ \E a \in CreateAnswers(ciStack) :
           IF a.kind = "ok"
           THEN /\ ciStack' = "CREATE_IN_PROGRESS"
                /\ okCount' = okCount + 1
                /\ steps' = Append(steps, "ci_wait")
                /\ wait' = Waiting("success", "ci")
                /\ elapsed' = 0
                /\ Goto("ci_wait")
           ELSE /\ UNCHANGED <<ciStack, okCount, steps, wait, elapsed>>
                /\ Caught("ClientError")
    /\ UNCHANGED <<config, bucket, p_status, p_were_updates, p_exists, probeLog, seen, webStack,
                   updateVars, toolVars, deployVars>>

\* `if not wait_...(...): sys.exit(1)`: the script takes up what the wait it
\* called returned, and goes to `after` when that is True.  The wait's
\* start_time is gone with its return.
Waited(at, after) ==
    /\ ppc = at
    /\ wait.pc \in {"returned", "raised"}
    /\ elapsed' = 0
    /\ IF wait.pc = "raised" THEN okCount' = okCount /\ Caught("ClientError")
       ELSE IF wait.result = "True" THEN okCount' = okCount + 1 /\ Goto(after)
       ELSE IF OnWaitFalse = "exit1" THEN okCount' = okCount /\ SysExit1
       ELSE okCount' = okCount /\ Goto(after)

\* the wait on the CI stack returned
P_CiWaited ==
    /\ Waited("ci_wait", "ci_outputs")
    /\ UNCHANGED <<config, bucket, steps, p_status, p_were_updates, p_exists, p_calls, probeLog,
                   wait, seen, serviceVars, updateVars, toolVars, deployVars>>

\* get_stack_outputs of the CI stack, then wait_for_stack_existence is called
P_CiOutputs ==
    /\ ppc = "ci_outputs"
    /\ \E a \in DescribeAnswers(ciStack), hasOutputs \in BOOLEAN :
           IF a.kind = "ok" /\ hasOutputs
           THEN /\ steps' = Append(steps, "web_exist")
                /\ wait' = Waiting("existence", "web")
                /\ elapsed' = 0
                /\ Goto("web_exist")
           ELSE /\ UNCHANGED <<steps, wait, elapsed>>
                /\ Caught(IF a.kind = "ok" THEN "KeyError" ELSE "ClientError")
    /\ UNCHANGED <<config, bucket, okCount, p_status, p_were_updates, p_exists, p_calls, probeLog, seen,
                   serviceVars, updateVars, toolVars, deployVars>>

\* wait_for_stack_existence returned; wait_for_stack_success on the web stack
\* is called
P_WebExists ==
    /\ Waited("web_exist", "web_wait")
    /\ IF ppc' = "web_wait"
       THEN /\ steps' = Append(steps, "web_wait")
            /\ wait' = Waiting("success", "web")
       ELSE UNCHANGED <<steps, wait>>
    /\ UNCHANGED <<config, bucket, p_status, p_were_updates, p_exists, p_calls, probeLog, seen,
                   serviceVars, updateVars, toolVars, deployVars>>

\* the wait on the web stack returned
P_WebWaited ==
    /\ Waited("web_wait", "web_outputs")
    /\ UNCHANGED <<config, bucket, steps, p_status, p_were_updates, p_exists, p_calls, probeLog,
                   wait, seen, serviceVars, updateVars, toolVars, deployVars>>

\* get_stack_outputs of the web stack and the site's URL
P_WebOutputs ==
    /\ ppc = "web_outputs"
    /\ \E a \in DescribeAnswers(webStack), hasOutputs \in BOOLEAN :
           IF a.kind = "ok" /\ hasOutputs THEN Goto("probe")
           ELSE Caught(IF a.kind = "ok" THEN "KeyError" ELSE "ClientError")
    /\ UNCHANGED <<config, bucket, steps, okCount, p_status, p_were_updates, p_exists, p_calls, probeLog,
                   waitVars, serviceVars, updateVars, toolVars, deployVars>>

\* What test_web_site can return: True, False (no marker, or a URLError), or
\* an exception that is no URLError.
ProbeOutcomes == {"True", "False", "raise"}

\* `if not test_web_site(siteURL)`: the first probe, and start_time of the
\* retry loop
P_Probe ==
    /\ ppc = "probe"
    /\ steps' = Append(steps, "probe")
    /\ \E r \in ProbeOutcomes :
           /\ probeLog' = Append(probeLog, r)
           /\ CASE r = "True" -> okCount' = okCount + 1 /\ FallOffEnd
                [] r = "False" -> okCount' = okCount /\ Goto("probe_loop")
                [] OTHER -> okCount' = okCount /\ Caught("socket.timeout")
    /\ elapsed' = 0
    /\ UNCHANGED <<config, bucket, p_status, p_were_updates, p_exists, p_calls, wait, seen,
                   serviceVars, updateVars, toolVars, deployVars>>

\* One pass of `while not test_web_site(siteURL)`: the probe, the timeout
\* test and sleep(10)
P_ProbeLoop ==
    /\ ppc = "probe_loop"
    /\ \E r \in ProbeOutcomes, d \in Latencies :
           /\ probeLog' = Append(probeLog, r)
           /\ CASE r = "True" ->
                     /\ okCount' = okCount + 1
                     /\ elapsed' = Advance(elapsed, d)
                     /\ FallOffEnd
                [] r = "raise" ->
                     /\ okCount' = okCount
                     /\ elapsed' = Advance(elapsed, d)
                     /\ Caught("socket.timeout")
                [] OTHER ->
                     IF Advance(elapsed, d) > ProbeTimeout
                     THEN /\ okCount' = okCount
                          /\ elapsed' = Advance(elapsed, d)
                          /\ SysExit1
                     ELSE IF SleepIsBound
                          THEN /\ okCount' = okCount
                               /\ elapsed' = Advance(Advance(elapsed, d), ProbePause)
                               /\ Goto("probe_loop")
                          ELSE /\ okCount' = okCount
                               /\ elapsed' = Advance(elapsed, d)
                               /\ Caught("NameError")
    /\ UNCHANGED <<config, bucket, steps, p_status, p_were_updates, p_exists, p_calls, wait, seen,
                   serviceVars, updateVars, toolVars, deployVars>>

ScriptStep ==
    \/ P_Start
    \/ P_EnsureBucket
    \/ P_Upload
    \/ P_CiExists
    \/ P_CiStatus
    \/ P_CiUpdate
    \/ P_CiCreate
    \/ P_CiWaited
    \/ P_CiOutputs
    \/ P_WebExists
    \/ P_WebWaited
    \/ P_WebOutputs
    \/ P_Probe
    \/ P_ProbeLoop

\* The service moves the CI stack's operation in flight one status on.
CiStackProgress ==
    /\ \E s \in NextStatuses(ciStack) : ciStack' = s
    /\ UNCHANGED <<webStack, updateVars, toolVars, deployVars, scriptVars>>

\* The pipeline of the CI stack deploys: its deploy handler creates the web
\* stack, or starts an update of it.
PipelineDeploys ==
    /\ ciStack # NoStack
    /\ \/ webStack = NoStack /\ webStack' = "CREATE_IN_PROGRESS"
       \/ webStack \in ServiceUpdatable /\ webStack' = "UPDATE_IN_PROGRESS"
    /\ deployed' = TRUE
    /\ UNCHANGED <<ciStack, updateVars, storeVars, opsVars, buildVars, deployVars, scriptVars>>

-----------------------------------------------------------------------------
(* provision.py: ensure_bucket and upload_lambda_functions, step by step,  *)
(* against the artifact store.                                             *)

\* The most versions the uploaded object gets.
MaxVersions == 4

\* head_bucket: the store answers for a bucket the caller can reach; it
\* refuses (403), throttles or is unreachable at times; an absent bucket is
\* a 404.  Everything but "ok" is an exception in the client.
HeadAnswers(b) == IF b.exists THEN {"ok", "error"} ELSE {"not_found", "error"}

\* create_bucket: creating one's own bucket again is accepted in us-east-1
\* and refused (BucketAlreadyOwnedByYou) elsewhere.
CreateBucketAnswers(b) == IF b.exists THEN {"ok", "already_owned"} ELSE {"ok", "error"}

\* versioning['Status'] == 'Enabled'; a bucket whose versioning was never
\* set has no 'Status' (KeyError): False.
versioning_enabled_unless_suspended(v) == v # "Suspended"

versioning_enabled(v) == v = "Enabled"

NoEnsure == [pc |-> "idle", head |-> "none", calls |-> <<>>,
             before |-> [exists |-> TRUE, versioning |-> "Enabled"]]

\* ensure_bucket has just been called on bucket b.
Ensuring(b) == [pc |-> "head", head |-> "none", calls |-> <<>>, before |-> b]

NoUpload == [pc |-> "idle", wrote |-> 0, result |-> 0]

EB_Call(name, to) == [eb EXCEPT !.calls = Append(@, name), !.pc = to]

\* s3.head_bucket, and the bare except around it
EB_Head ==
    /\ eb.pc = "head"
    /\ \E a \in HeadAnswers(bucket) :
           eb' = [EB_Call("head_bucket", IF a = "ok" THEN "versioning" ELSE "create")
                     EXCEPT !.head = a]
    /\ UNCHANGED <<object, up, opsVars, buildVars, deployed, serviceVars, updateVars, deployVars, scriptVars>>

\* s3.create_bucket and wait_until_exists
EB_Create ==
    /\ eb.pc = "create"
    /\ \E a \in CreateBucketAnswers(bucket) :
           IF a = "ok"
           THEN /\ bucket' = IF bucket.exists THEN bucket
                             ELSE [exists |-> TRUE, versioning |-> "unset"]
                /\ eb' = EB_Call("create_bucket", "versioning")
           ELSE /\ bucket' = bucket
                /\ eb' = EB_Call("create_bucket", "raised")
    /\ UNCHANGED <<object, up, opsVars, buildVars, deployed, serviceVars, updateVars, deployVars, waitVars,
                   provLocals>>

\* s3.get_bucket_versioning and the test of its 'Status'
EB_GetVersioning ==
    /\ eb.pc = "versioning"
    /\ \E ok \in BOOLEAN :
           eb' = EB_Call("get_bucket_versioning",
                         IF ~ok THEN "raised"
                         ELSE IF versioning_enabled(bucket.versioning) THEN "returned"
                         ELSE "put")
    /\ UNCHANGED <<object, up, opsVars, buildVars, deployed, serviceVars, updateVars, deployVars, scriptVars>>

\* s3.put_bucket_versioning
EB_PutVersioning ==
    /\ eb.pc = "put"
    /\ \E ok \in BOOLEAN :
           IF ok
           THEN /\ bucket' = [bucket EXCEPT !.versioning = "Enabled"]
                /\ eb' = EB_Call("put_bucket_versioning", "returned")
           ELSE /\ bucket' = bucket
                /\ eb' = EB_Call("put_bucket_versioning", "raised")
    /\ UNCHANGED <<object, up, opsVars, buildVars, deployed, serviceVars, updateVars, deployVars, waitVars,
                   provLocals>>

\* s3.upload_file: the store keeps what was written as the newest version.
\* __main__ calls upload_lambda_functions once ensure_bucket has returned.
U_Upload ==
    /\ eb.pc = "returned"
    /\ up.pc = "idle"
    /\ Len(object) < MaxVersions
    /\ \E ok \in BOOLEAN :
           IF ok
           THEN /\ object' = Append(object, "this")
                /\ up' = [up EXCEPT !.pc = "head", !.wrote = Len(object')]
           ELSE /\ object' = object
                /\ up' = [up EXCEPT !.pc = "raised"]
    /\ UNCHANGED <<eb, opsVars, buildVars, deployed, serviceVars, updateVars, deployVars, scriptVars>>

\* s3.head_object, without a VersionId: the newest version answers.
U_Head ==
    /\ up.pc = "head"
    /\ \E ok \in BOOLEAN :
           up' = IF ok THEN [up EXCEPT !.pc = "returned", !.result = Len(object)]
                 ELSE [up EXCEPT !.pc = "raised"]
    /\ UNCHANGED <<eb, object, opsVars, buildVars, deployed, serviceVars, updateVars, deployVars, scriptVars>>

\* Another writer (a second run of the script, say) uploads to the same key.
OtherWriter ==
    /\ bucket.exists
    /\ up.pc \in {"idle", "head"}
    /\ Len(object) < MaxVersions
    /\ object' = Append(object, "other")
    /\ UNCHANGED <<eb, up, opsVars, buildVars, deployed, serviceVars, updateVars, deployVars, scriptVars>>

StoreStep ==
    \/ EB_Head
    \/ EB_Create
    \/ EB_GetVersioning
    \/ EB_PutVersioning
    \/ U_Upload
    \/ U_Head

-----------------------------------------------------------------------------
(* terminate.py and status.py: one run of either script.                   *)

\* What the user may type at the prompt of terminate.py.
Answers == {"yes", "y", "YES", "no", ""}

\* user_wants_terminate: ok == 'yes'
user_wants_terminate_any_yes(ok) == ok \in {"yes", "y", "YES"}

user_wants_terminate(ok) == ok = "yes"

\* The calls the helpers of provision.py and terminate_stack make.
stack_exists_call == "describe_stacks"

get_stack_info_call_delete == "delete_stack"

get_stack_info_call == "describe_stacks"

terminate_stack_call_bucket == "delete_bucket"

terminate_stack_call == "delete_stack"

\* Whether terminate_stack waits for the deletion to complete (the waiter
\* stack_delete_complete).
terminate_stack_no_wait == FALSE

terminate_stack_waits == TRUE

Call(op, on) == [op |-> op, on |-> on]

\* What a call that the service accepted does to a stack in state s and to
\* the bucket b: delete_stack starts the deletion of a stack that exists,
\* delete_bucket removes the bucket, describe_stacks changes nothing.
StackAfter(op, s) ==
    IF op = "delete_stack" /\ s # NoStack THEN "DELETE_IN_PROGRESS" ELSE s

BucketAfter(op, b) ==
    IF op = "delete_bucket" THEN [exists |-> FALSE, versioning |-> "unset"] ELSE b

\* The script calls op on stack `on`; `accepted` tells whether the service
\* carried it out.
ServiceDoes(op, on, accepted) ==
    /\ tcalls' = Append(tcalls, Call(op, on))
    /\ ciStack' = IF accepted /\ on = "ci" THEN StackAfter(op, ciStack) ELSE ciStack
    /\ webStack' = IF accepted /\ on = "web" THEN StackAfter(op, webStack) ELSE webStack
    /\ bucket' = IF accepted THEN BucketAfter(op, bucket) ELSE bucket

\* get_stack_outputs: the outputs, a KeyError when the description has no
\* 'Outputs', or the exception of describe_stacks.
OutputsAnswers(s) ==
    IF s = NoStack THEN {"raise"} ELSE {"outputs", "KeyError", "raise"}

\* sys.exit(n), and the end of the script (exit status 0)
OpsExit(n) ==
    /\ tpc' = "done"
    /\ texit' = n

\* An exception nothing catches: traceback, exit status 1.
Uncaught == OpsExit("1")

OpsGoto(p) ==
    /\ tpc' = p
    /\ texit' = texit

\* The exit status of status.py after the probe: `if found: ... sys.exit(0)`,
\* else sys.exit(1).
status_exit_always_0(f) == "0"

status_exit(f) == IF f = "True" THEN "0" ELSE "1"

\* What neither script touches.
opsRest == <<updateVars, deployVars, storeVars, buildVars, waitVars, provLocals, deployed>>

NoOps == [ci |-> NoStack, web |-> NoStack,
          bucket |-> [exists |-> TRUE, versioning |-> "Enabled"]]

\* ---- terminate.py

\* `if not user_wants_terminate(): sys.exit(0)`
T_Confirm ==
    /\ tool = "terminate" /\ tpc = "confirm"
    /\ IF user_wants_terminate(confirm) THEN OpsGoto("ci_exists") ELSE OpsExit("0")
    /\ UNCHANGED <<tool, found, tcalls, confirm, web_stack, ciNamesWeb, atStart, bucket,
                   serviceVars, opsRest>>

\* `if stack_exists(cf, ci_stack_name)`, else "CI stack not found"
T_CiExists ==
    /\ tool = "terminate" /\ tpc = "ci_exists"
    /\ \E a \in DescribeAnswers(ciStack) :
           /\ ServiceDoes(stack_exists_call, "ci", a.kind = "ok")
           /\ CASE stack_exists(a) = "True" -> OpsGoto("ci_outputs")
                [] stack_exists(a) = "False" -> OpsExit("0")
                [] OTHER -> Uncaught
    /\ UNCHANGED <<tool, found, confirm, web_stack, ciNamesWeb, atStart, opsRest>>

\* get_stack_outputs(cf, ci_stack_name) and ci_outputs['WebStackName']
T_CiOutputs ==
    /\ tool = "terminate" /\ tpc = "ci_outputs"
    /\ \E r \in OutputsAnswers(ciStack) :
           /\ ServiceDoes(get_stack_info_call, "ci", r # "raise")
           /\ IF r # "outputs" THEN web_stack' = web_stack /\ Uncaught
              ELSE IF ciNamesWeb THEN web_stack' = "web" /\ OpsGoto("web_exists")
              ELSE web_stack' = "None" /\ OpsGoto("delete_ci")
    /\ UNCHANGED <<tool, found, confirm, ciNamesWeb, atStart, opsRest>>

\* `web_stack is not None and stack_exists(cf, web_stack)`
T_WebExists ==
    /\ tool = "terminate" /\ tpc = "web_exists"
    /\ \E a \in DescribeAnswers(webStack) :
           /\ ServiceDoes(stack_exists_call, "web", a.kind = "ok")
           /\ CASE stack_exists(a) = "True" -> OpsGoto("delete_web")
                [] stack_exists(a) = "False" -> OpsGoto("delete_ci")
                [] OTHER -> Uncaught
    /\ UNCHANGED <<tool, found, confirm, web_stack, ciNamesWeb, atStart, opsRest>>

\* terminate_stack: cf.delete_stack
T_Delete(on, at, waitAt, after) ==
    /\ tool = "terminate" /\ tpc = at
    /\ \E a \in Faults \cup {Ok} :
           /\ ServiceDoes(terminate_stack_call, on, a.kind = "ok")
           /\ IF a.kind # "ok" THEN Uncaught
              ELSE IF terminate_stack_waits THEN OpsGoto(waitAt)
              ELSE IF after = "done" THEN OpsExit("0")
              ELSE OpsGoto(after)
    /\ UNCHANGED <<tool, found, confirm, web_stack, ciNamesWeb, atStart, opsRest>>

\* terminate_stack: the waiter stack_delete_complete returns once the stack
\* is gone; it raises when the deletion failed, when a poll raised, or when
\* it has polled its fill and the deletion is still in progress.
T_Deleted(on, s, waitAt, after) ==
    /\ tool = "terminate" /\ tpc = waitAt
    /\ \E a \in DescribeAnswers(s) :
           /\ ServiceDoes("describe_stacks", on, a.kind = "ok")
           /\ CASE stack_exists(a) = "False" ->
                     IF after = "done" THEN OpsExit("0") ELSE OpsGoto(after)
                [] OTHER -> Uncaught
    /\ UNCHANGED <<tool, found, confirm, web_stack, ciNamesWeb, atStart, opsRest>>

T_DeleteWeb == T_Delete("web", "delete_web", "wait_web", "delete_ci")

T_WebDeleted == T_Deleted("web", webStack, "wait_web", "delete_ci")

T_DeleteCi == T_Delete("ci", "delete_ci", "wait_ci", "done")

T_CiDeleted == T_Deleted("ci", ciStack, "wait_ci", "done")

\* ---- status.py

\* `if stack_exists(cf, ci_stack_name)`, else "CI stack not found"
S_CiExists ==
    /\ tool = "status" /\ tpc = "ci_exists"
    /\ \E a \in DescribeAnswers(ciStack) :
           /\ ServiceDoes(stack_exists_call, "ci", a.kind = "ok")
           /\ CASE stack_exists(a) = "True" -> OpsGoto("ci_outputs")
                [] stack_exists(a) = "False" -> OpsExit("1")
                [] OTHER -> Uncaught
    /\ UNCHANGED <<tool, found, confirm, web_stack, ciNamesWeb, atStart, opsRest>>

\* get_stack_outputs(cf, ci_stack_name), ci_outputs['WebStackName'] and
\* `if web_stack is None`
S_CiOutputs ==
    /\ tool = "status" /\ tpc = "ci_outputs"
    /\ \E r \in OutputsAnswers(ciStack) :
           /\ ServiceDoes(get_stack_info_call, "ci", r # "raise")
           /\ IF r # "outputs" THEN web_stack' = web_stack /\ Uncaught
              ELSE IF ciNamesWeb THEN web_stack' = "web" /\ OpsGoto("web_exists")
              ELSE web_stack' = "None" /\ OpsExit("1")
    /\ UNCHANGED <<tool, found, confirm, ciNamesWeb, atStart, opsRest>>

\* `not stack_exists(cf, web_stack)`: "Web stack not found"
S_WebExists ==
    /\ tool = "status" /\ tpc = "web_exists"
    /\ \E a \in DescribeAnswers(webStack) :
           /\ ServiceDoes(stack_exists_call, "web", a.kind = "ok")
           /\ CASE stack_exists(a) = "True" -> OpsGoto("web_outputs")
                [] stack_exists(a) = "False" -> OpsExit("1")
                [] OTHER -> Uncaught
    /\ UNCHANGED <<tool, found, confirm, web_stack, ciNamesWeb, atStart, opsRest>>

\* get_stack_outputs(cf, web_stack) and web_outputs['BalancerDNSName']
S_WebOutputs ==
    /\ tool = "status" /\ tpc = "web_outputs"
    /\ \E r \in OutputsAnswers(webStack) :
           /\ ServiceDoes(get_stack_info_call, "web", r # "raise")
           /\ IF r = "outputs" THEN OpsGoto("probe") ELSE Uncaught
    /\ UNCHANGED <<tool, found, confirm, web_stack, ciNamesWeb, atStart, opsRest>>

\* `found = test_web_site(...)`: "OK" and exit status 0, or "NOT OK" and 1
S_Probe ==
    /\ tool = "status" /\ tpc = "probe"
    /\ \E r \in ProbeOutcomes :
           /\ ServiceDoes("http_get", "site", r # "raise")
           /\ found' = IF r = "raise" THEN found ELSE r
           /\ IF r = "raise" THEN Uncaught ELSE OpsExit(status_exit(r))
    /\ UNCHANGED <<tool, confirm, web_stack, ciNamesWeb, atStart, opsRest>>

OpsStep ==
    \/ T_Confirm
    \/ T_CiExists
    \/ T_CiOutputs
    \/ T_WebExists
    \/ T_DeleteWeb
    \/ T_WebDeleted
    \/ T_DeleteCi
    \/ T_CiDeleted
    \/ S_CiExists
    \/ S_CiOutputs
    \/ S_WebExists
    \/ S_WebOutputs
    \/ S_Probe

IdleOps ==
    /\ tool = "none"
    /\ tpc = "idle"
    /\ texit = "running"
    /\ tcalls = <<>>
    /\ confirm = ""
    /\ web_stack = "unset"
    /\ ciNamesWeb = TRUE
    /\ atStart = NoOps
    /\ found = "unset"

-----------------------------------------------------------------------------
(* lambdabuild.py: lambda_handler, one invocation of the build handler.    *)

BuildRequiredItems ==
    {"source_artifact", "build_artifact", "template_artifact", "template_subdir_path"}

\* An event the build handler finds nothing wrong with.  source, build and
\* template tell whether the artifact that UserParameters names is among the
\* event's input (source) or output (build, template) artifacts.
BuildWellFormed ==
    [hasJobId |-> TRUE, hasData |-> TRUE, decodable |-> TRUE,
     keys |-> BuildRequiredItems, hasArtifacts |-> TRUE, hasCredentials |-> TRUE,
     source |-> TRUE, build |-> TRUE, template |-> TRUE]

\* Events with at most one thing wrong; the handler stops at the first.
BuildEvents ==
    {BuildWellFormed,
     [BuildWellFormed EXCEPT !.hasJobId = FALSE],
     [BuildWellFormed EXCEPT !.hasData = FALSE],
     [BuildWellFormed EXCEPT !.decodable = FALSE],
     [BuildWellFormed EXCEPT !.hasArtifacts = FALSE],
     [BuildWellFormed EXCEPT !.hasCredentials = FALSE],
     [BuildWellFormed EXCEPT !.source = FALSE],
     [BuildWellFormed EXCEPT !.build = FALSE],
     [BuildWellFormed EXCEPT !.template = FALSE]}
    \cup {[BuildWellFormed EXCEPT !.keys = BuildRequiredItems \ {i}] :
              i \in BuildRequiredItems}

\* lambdabuild.get_user_params: "ok", or "raise" when the JSON cannot be
\* decoded or lacks a required item.
build_get_user_params(ev) ==
    IF ~ev.decodable THEN "raise"
    ELSE IF \E i \in BuildRequiredItems : i \notin ev.keys THEN "raise"
    ELSE "ok"

\* find_artifact: the artifact, or "raise" when none has the name.
find_artifact(present) == IF present THEN "ok" ELSE "raise"

\* The handler from its first line to find_artifact of the source artifact:
\* the exception raised on the way, or "none".
build_entry(ev) ==
    IF ~ev.hasJobId \/ ~ev.hasData THEN "KeyError"
    ELSE IF build_get_user_params(ev) = "raise" THEN "Exception"
    ELSE IF ~ev.hasArtifacts \/ ~ev.hasCredentials THEN "KeyError"
    ELSE IF find_artifact(ev.source) = "raise" THEN "Exception"
    ELSE "none"

\* Where the handler goes once the build artifact is uploaded: on to the
\* template artifact.
AfterPutBuildReport == "report"

AfterPutBuild == "put_template"

\* A step of the try block raised: the except clause is next.
BuildRaise(what) ==
    /\ bpc' = "except"
    /\ braised' = what

BuildGoto(p) ==
    /\ bpc' = p
    /\ braised' = braised

buildRest == <<serviceVars, updateVars, deployVars, scriptVars, storeVars, opsVars, deployed>>

\* The pipeline (or someone by hand) invokes the handler.
BuildInvoke ==
    /\ bpc = "idle"
    /\ breports = <<>>
    /\ \E ev \in BuildEvents, ok \in BOOLEAN :
           /\ bevent' = ev
           /\ bapiOk' = ok
    /\ BuildGoto("entry")
    /\ UNCHANGED <<buploads, breports, battempts, buildRest>>

\* job_id, job_data, get_user_params, the artifact lists, setup_s3_client and
\* find_artifact of the source artifact
B_Entry ==
    /\ bpc = "entry"
    /\ IF build_entry(bevent) = "none" THEN BuildGoto("download")
       ELSE BuildRaise(build_entry(bevent))
    /\ UNCHANGED <<bevent, bapiOk, buploads, breports, battempts, buildRest>>

\* get_zipped_artifact: s3.download_file and extractall
B_Download ==
    /\ bpc = "download"
    /\ \E r \in {"ok", "ClientError", "BadZipfile"} :
           IF r = "ok" THEN BuildGoto("build") ELSE BuildRaise(r)
    /\ UNCHANGED <<bevent, bapiOk, buploads, breports, battempts, buildRest>>

\* perform_build: os.listdir of the src directory and the copies
B_Build ==
    /\ bpc = "build"
    /\ \E r \in {"ok", "OSError"} :
           IF r = "ok" THEN BuildGoto("put_build") ELSE BuildRaise(r)
    /\ UNCHANGED <<bevent, bapiOk, buploads, breports, battempts, buildRest>>

\* find_artifact of the build artifact and put_zipped_artifact
B_PutBuild ==
    /\ bpc = "put_build"
    /\ IF find_artifact(bevent.build) = "raise"
       THEN buploads' = buploads /\ BuildRaise("Exception")
       ELSE \E ok \in BOOLEAN :
                IF ok THEN buploads' = Append(buploads, "build") /\ BuildGoto(AfterPutBuild)
                ELSE buploads' = buploads /\ BuildRaise("S3UploadFailedError")
    /\ UNCHANGED <<bevent, bapiOk, breports, battempts, buildRest>>

\* find_artifact of the template artifact and put_zipped_artifact of the
\* template's directory
B_PutTemplate ==
    /\ bpc = "put_template"
    /\ IF find_artifact(bevent.template) = "raise"
       THEN buploads' = buploads /\ BuildRaise("Exception")
       ELSE \E r \in {"ok", "OSError", "S3UploadFailedError"} :
                IF r = "ok" THEN buploads' = Append(buploads, "template") /\ BuildGoto("cleanup")
                ELSE buploads' = buploads /\ BuildRaise(r)
    /\ UNCHANGED <<bevent, bapiOk, breports, battempts, buildRest>>

\* shutil.rmtree of the two temporary directories
B_Cleanup ==
    /\ bpc = "cleanup"
    /\ \E ok \in BOOLEAN : IF ok THEN BuildGoto("report") ELSE BuildRaise("OSError")
    /\ UNCHANGED <<bevent, bapiOk, buploads, breports, battempts, buildRest>>

\* put_job_success, the last statement of the try block
B_PutJobSuccess ==
    /\ bpc = "report"
    /\ battempts' = battempts + 1
    /\ IF bapiOk THEN breports' = Append(breports, "success") /\ BuildGoto("done")
       ELSE breports' = breports /\ BuildRaise("ClientError")
    /\ UNCHANGED <<bevent, bapiOk, buploads, buildRest>>

\* except Exception: put_job_failure(job_id, ...).  Without a job id the
\* name job_id is unbound and the handler ends in an UnboundLocalError; an
\* exception of the reporting call leaves the handler as well.
B_Except ==
    /\ bpc = "except"
    /\ IF ~bevent.hasJobId
       THEN UNCHANGED <<breports, battempts>> /\ BuildGoto("escaped")
       ELSE /\ battempts' = battempts + 1
            /\ IF bapiOk THEN breports' = Append(breports, "failure") /\ BuildGoto("done")
               ELSE breports' = breports /\ BuildGoto("escaped")
    /\ UNCHANGED <<bevent, bapiOk, buploads, buildRest>>

BuildStep ==
    \/ B_Entry
    \/ B_Download
    \/ B_Build
    \/ B_PutBuild
    \/ B_PutTemplate
    \/ B_Cleanup
    \/ B_PutJobSuccess
    \/ B_Except

IdleBuild ==
    /\ bpc = "idle"
    /\ bevent = BuildWellFormed
    /\ bapiOk = TRUE
    /\ buploads = <<>>
    /\ breports = <<>>
    /\ battempts = 0
    /\ braised = "none"

IdleStore ==
    /\ eb = NoEnsure
    /\ object = <<>>
    /\ up = NoUpload

\* Every tool that is not part of the specification at hand is at rest.
IdleTools ==
    /\ IdleStore
    /\ IdleOps
    /\ IdleBuild

-----------------------------------------------------------------------------
(* Initial states and specifications.                                      *)

IdleDeploy ==
    /\ pc = "idle"
    /\ event = WellFormed
    /\ apiOk = TRUE
    /\ answer = NoResp
    /\ status = "unset"
    /\ existed = "unset"
    /\ were_updates = "unset"
    /\ pending = NoReport
    /\ reports = <<>>
    /\ attempts = 0
    /\ calls = <<>>
    /\ fn = NoFn
    /\ statusAtReport = "unset"
    /\ deployed = FALSE

\* The script at its first line, or (p = "idle") not running.
ScriptAt(p) ==
    /\ ppc = p
    /\ exit = "running"
    /\ exc = "none"
    /\ steps = <<>>
    /\ okCount = 0
    /\ p_status = "unset"
    /\ p_were_updates = "unset"
    /\ p_exists = "unset"
    /\ p_calls = <<>>
    /\ probeLog = <<>>

IdleScript ==
    /\ ScriptAt("idle")
    /\ config = AllSet
    /\ bucket = [exists |-> TRUE, versioning |-> "Enabled"]
    /\ wait = NoWait
    /\ elapsed = 0
    /\ seen = NothingSeen

\* Neither version of update_stack called yet; the rest of the program at rest.
InitUpdateAlone ==
    /\ IdleTools
    /\ InitUpdate
    /\ IdleDeploy
    /\ IdleScript
    /\ job = "new"
    /\ webStack = NoStack
    /\ ciStack = NoStack

NextUpdate == \E v \in Versions : CallUpdateStack(v)

SpecUpdate == InitUpdateAlone /\ [][NextUpdate]_vars

\* A job is new, or was continued by an earlier invocation; the web stack is
\* in any state, other actors having had their way with it.
InitDeploy ==
    /\ IdleTools
    /\ IdleDeploy
    /\ IdleScript
    /\ InitUpdate
    /\ job \in {"new", "continued"}
    /\ webStack \in StackStates
    /\ ciStack = "CREATE_COMPLETE"

NextDeploy ==
    \/ PipelineInvoke
    \/ DirectInvoke
    \/ HandlerStep
    \/ WebStackProgress
    \/ WebStackDelete

SpecDeploy == InitDeploy /\ [][NextDeploy]_vars

NextLiveDeploy ==
    \/ PipelineInvokeReliable
    \/ HandlerStep
    \/ WebStackProgress
    \/ WebStackDelete

\* The pipeline re-invokes, an invocation runs to its end, and an operation in
\* flight moves on.
LiveDeploy ==
    /\ InitDeploy
    /\ [][NextLiveDeploy]_vars
    /\ WF_vars(PipelineInvokeReliable)
    /\ WF_vars(HandlerStep)
    /\ WF_vars(WebStackProgress)

\* One of the two waits has just been called, on a stack in any state.
InitWait ==
    /\ IdleTools
    /\ IdleDeploy
    /\ InitUpdate
    /\ ScriptAt("idle")
    /\ job = "new"
    /\ config = AllSet
    /\ bucket = [exists |-> TRUE, versioning |-> "Enabled"]
    /\ seen = NothingSeen
    /\ elapsed = 0
    /\ \E f \in {"success", "existence"}, n \in {"ci", "web"} : wait = Waiting(f, n)
    /\ IF wait.stack = "ci"
       THEN ciStack \in StackStates /\ webStack = NoStack
       ELSE ciStack = "CREATE_COMPLETE" /\ webStack \in StackStates

\* The stacks move while the wait runs.
AroundWait ==
    /\ wait.pc \in {"poll", "sleep"}
    /\ \/ CiStackProgress
       \/ WebStackProgress
       \/ PipelineDeploys
       \/ WebStackDelete

NextWait ==
    \/ WaitStep
    \/ AroundWait

SpecWait == InitWait /\ [][NextWait]_vars

\* The loop keeps running; the stacks move or not, as they please.
LiveWait == InitWait /\ [][NextWait]_vars /\ WF_vars(WaitStep)

\* The script is started, with any settings, bucket and stacks.
InitProvision ==
    /\ IdleTools
    /\ IdleDeploy
    /\ InitUpdate
    /\ ScriptAt("start")
    /\ job = "new"
    /\ config \in Configs
    /\ bucket \in BucketStates
    /\ wait = NoWait
    /\ elapsed = 0
    /\ seen = NothingSeen
    /\ ciStack \in StackStates
    /\ webStack \in StackStates

\* The stacks move while the script runs.
Around ==
    /\ ppc # "exited"
    /\ \/ CiStackProgress
       \/ WebStackProgress
       \/ PipelineDeploys

NextProvision ==
    \/ ScriptStep
    \/ WaitStep
    \/ Around

SpecProvision == InitProvision /\ [][NextProvision]_vars

\* The pipeline invokes the handler once.
InvokeOnce ==
    /\ pc = "idle"
    /\ PipelineInvoke

\* Between the handler's existence test and its create or update call
\* another invocation of the handler starts an operation on the web stack, or
\* the terminate script deletes it; an operation in flight moves on at any
\* moment of the invocation.
AroundRace ==
    \/ /\ pc \in {"get_status", "update", "create"}
       /\ \/ PipelineDeploys
          \/ WebStackDelete
    \/ /\ pc \notin {"idle", "done", "raised"}
       /\ WebStackProgress

NextRace ==
    \/ InvokeOnce
    \/ HandlerStep
    \/ AroundRace

\* One invocation of the deploy handler, other actors at work on the same stack.
SpecRace == InitDeploy /\ [][NextRace]_vars

\* ensure_bucket has just been called, on a bucket in any state; the object
\* has no version yet, or one of another writer.
InitStore ==
    /\ IdleDeploy
    /\ InitUpdate
    /\ ScriptAt("idle")
    /\ job = "new"
    /\ webStack = NoStack
    /\ ciStack = NoStack
    /\ config = AllSet
    /\ wait = NoWait
    /\ elapsed = 0
    /\ seen = NothingSeen
    /\ bucket \in BucketStates
    /\ eb = Ensuring(bucket)
    /\ object \in IF bucket.exists THEN {<<>>, <<"other">>} ELSE {<<>>}
    /\ up = NoUpload
    /\ IdleOps
    /\ IdleBuild

NextStore ==
    \/ StoreStep
    \/ OtherWriter

SpecStore == InitStore /\ [][NextStore]_vars

\* One of the two scripts is started, the stacks and the bucket in any state.
InitOps ==
    /\ IdleDeploy
    /\ InitUpdate
    /\ ScriptAt("idle")
    /\ IdleStore
    /\ IdleBuild
    /\ job = "new"
    /\ config = AllSet
    /\ wait = NoWait
    /\ elapsed = 0
    /\ seen = NothingSeen
    /\ ciStack \in StackStates
    /\ webStack \in StackStates
    /\ bucket \in BucketStates
    /\ ciNamesWeb \in BOOLEAN
    /\ \/ tool = "terminate" /\ tpc = "confirm" /\ confirm \in Answers
       \/ tool = "status" /\ tpc = "ci_exists" /\ confirm = ""
    /\ texit = "running"
    /\ tcalls = <<>>
    /\ web_stack = "unset"
    /\ found = "unset"
    /\ atStart = [ci |-> ciStack, web |-> webStack, bucket |-> bucket]

\* Operations in flight move on while the script runs.
AroundOps ==
    /\ tpc # "done"
    /\ \/ CiStackProgress
       \/ WebStackProgress

NextOps ==
    \/ OpsStep
    \/ AroundOps

SpecOps == InitOps /\ [][NextOps]_vars

\* The build handler at rest, everything else too.
InitBuild ==
    /\ IdleDeploy
    /\ IdleScript
    /\ InitUpdate
    /\ IdleStore
    /\ IdleOps
    /\ IdleBuild
    /\ job = "new"
    /\ ciStack = "CREATE_COMPLETE"
    /\ webStack = NoStack

NextBuild ==
    \/ BuildInvoke
    \/ BuildStep

SpecBuild == InitBuild /\ [][NextBuild]_vars

-----------------------------------------------------------------------------
(* Properties of the deploy handler (SpecDeploy, LiveDeploy) and of        *)
(* update_stack (SpecUpdate).                                              *)

NoCall(names) == \A i \in 1..Len(calls) : calls[i] \notin names

HasCall(name) == \E i \in 1..Len(calls) : calls[i] = name

\* C1: an invocation whose event carries a job id, the job-reporting calls
\* succeeding, has reported exactly one result (success, failure or
\* continuation) when it returns, and at no moment more than one.
C1_ExactlyOneReport ==
    (event.hasJobId /\ apiOk) =>
        /\ Len(reports) <= 1
        /\ pc # "raised"
        /\ pc = "done" =>
               /\ Len(reports) = 1
               /\ reports[1] \in {"success", "failure", "continue"}

C1_Witness ==
    /\ pc = "done" /\ event.hasJobId /\ apiOk
    /\ reports = <<"continue">>
    /\ HasCall("create_stack")

\* C2: an invocation without a continuation token never runs the polling
\* function check_stack_update_status; an invocation with one only describes
\* the stack: no create_stack, no update_stack, no download of the template.
C2_TwoPhase ==
    /\ ~event.token => fn.name # "check_stack_update_status"
    /\ event.token =>
           /\ fn.name # "start_update_or_create"
           /\ NoCall({"create_stack", "update_stack", "download_file"})

C2_Witness ==
    /\ event.token /\ pc = "done"
    /\ fn = [name |-> "check_stack_update_status", ended |-> "returned"]
    /\ calls = <<"describe_stacks">>
    /\ reports = <<"continue">>

\* C3: whenever start_update_or_create returns: for a stack it found absent
\* it called create_stack and reported continuation; for a stack it found
\* with a status outside the four eligible ones it reported failure and
\* called neither create_stack nor update_stack; for a stack it found with an
\* eligible status it called update_stack and reported continuation when the
\* update was started, success (no continuation) when there were no updates.
C3_CreateOrUpdateDecision ==
    (fn = [name |-> "start_update_or_create", ended |-> "returned"]) =>
        \/ /\ existed = "False"
           /\ HasCall("create_stack") /\ NoCall({"update_stack"})
           /\ answer.kind = "ok"
           /\ reports = <<"continue">>
        \/ /\ existed = "True"
           /\ status \in StackStatuses \
                  {"CREATE_COMPLETE", "ROLLBACK_COMPLETE", "UPDATE_COMPLETE",
                   "UPDATE_ROLLBACK_COMPLETE"}
           /\ NoCall({"create_stack", "update_stack"})
           /\ reports = <<"failure">>
        \/ /\ existed = "True"
           /\ status \in {"CREATE_COMPLETE", "ROLLBACK_COMPLETE", "UPDATE_COMPLETE",
                          "UPDATE_ROLLBACK_COMPLETE"}
           /\ HasCall("update_stack") /\ NoCall({"create_stack"})
           /\ \/ answer.kind = "ok" /\ reports = <<"continue">>
              \/ answer = ClientError(NoUpdatesMsg) /\ reports = <<"success">>

C3_Witness ==
    /\ fn = [name |-> "start_update_or_create", ended |-> "returned"]
    /\ existed = "True" /\ status = "UPDATE_ROLLBACK_COMPLETE"
    /\ answer = ClientError(NoUpdatesMsg)
    /\ reports = <<"success">>

\* C4: whenever check_stack_update_status returns it has put exactly one
\* report, decided by the status it read: success for UPDATE_COMPLETE and
\* CREATE_COMPLETE, continuation for the five in-progress statuses it names,
\* failure for every other status.
C4_StatusVerdict ==
    (fn = [name |-> "check_stack_update_status", ended |-> "returned"]) =>
        /\ status \in StackStatuses
        /\ reports =
             << IF status \in {"UPDATE_COMPLETE", "CREATE_COMPLETE"} THEN "success"
                ELSE IF status \in {"UPDATE_IN_PROGRESS", "UPDATE_ROLLBACK_IN_PROGRESS",
                                    "UPDATE_ROLLBACK_COMPLETE_CLEANUP_IN_PROGRESS",
                                    "CREATE_IN_PROGRESS", "ROLLBACK_IN_PROGRESS"}
                     THEN "continue"
                     ELSE "failure" >>

C4_Witness ==
    /\ fn = [name |-> "check_stack_update_status", ended |-> "returned"]
    /\ status = "ROLLBACK_COMPLETE"
    /\ reports = <<"failure">>

\* C5: each version of update_stack returns True exactly when the service
\* accepted the update, returns False exactly when the service raised a
\* ClientError whose message is 'No updates are to be performed.', and raises
\* for every other error.
C5_UpdateStackOutcomes ==
    \A v \in Versions :
        usResp[v] # NoResp =>
            /\ usResult[v] \in {"True", "False", "raise"}
            /\ usResult[v] = "True" <=> usResp[v].kind = "ok"
            /\ usResult[v] = "False" <=>
                   /\ usResp[v].kind = "ClientError"
                   /\ usResp[v].msg = <<"No", "updates", "are", "to", "be", "performed.">>

C5_Witness ==
    /\ usResult["provision"] = "False"
    /\ usResult["lambda"] = "raise"
    /\ usResp["lambda"] = ClientError(NoUpdatesLongMsg)

\* Once the job has a final result, no step reports anything for it.
FinalStays == job \in FinalJob => (job' = job /\ reports' = reports)

\* C8: with the pipeline re-invoking after every continuation and operations
\* in flight moving on, the job eventually gets a final report, success or
\* failure, and nothing is reported for it after that.
C8_PollToCompletion == <>(job \in FinalJob) /\ [][FinalStays]_vars

C8_Witness ==
    /\ job = "succeeded" /\ event.token
    /\ status = "UPDATE_COMPLETE"
    /\ reports = <<"success">>

-----------------------------------------------------------------------------
(* Properties of the polling loops (SpecWait, LiveWait) and of the         *)
(* provision script (SpecProvision).                                       *)

\* C6: when wait_for_stack_success returns, it returns True exactly when the
\* last status it read is UPDATE_COMPLETE or CREATE_COMPLETE; it returns
\* False for a status that is neither complete nor in progress, and for a
\* status in progress read more than 600 seconds after the wait began, and
\* it never goes on polling then.
C6_WaitResult ==
    wait.fn = "success" =>
        /\ wait.pc = "returned" =>
               /\ wait.result \in {"True", "False"}
               /\ wait.result = "True" <=>
                      wait.status \in {"UPDATE_COMPLETE", "CREATE_COMPLETE"}
               /\ wait.result = "False" =>
                      \/ wait.status \in StackStatuses \
                             {"UPDATE_COMPLETE", "CREATE_COMPLETE",
                              "UPDATE_IN_PROGRESS", "UPDATE_ROLLBACK_IN_PROGRESS",
                              "UPDATE_ROLLBACK_COMPLETE_CLEANUP_IN_PROGRESS",
                              "CREATE_IN_PROGRESS", "ROLLBACK_IN_PROGRESS"}
                      \/ /\ wait.status \in
                             {"UPDATE_IN_PROGRESS", "UPDATE_ROLLBACK_IN_PROGRESS",
                              "UPDATE_ROLLBACK_COMPLETE_CLEANUP_IN_PROGRESS",
                              "CREATE_IN_PROGRESS", "ROLLBACK_IN_PROGRESS"}
                         /\ elapsed > 600
        /\ wait.pc = "sleep" =>
               /\ wait.status \in
                      {"UPDATE_IN_PROGRESS", "UPDATE_ROLLBACK_IN_PROGRESS",
                       "UPDATE_ROLLBACK_COMPLETE_CLEANUP_IN_PROGRESS",
                       "CREATE_IN_PROGRESS", "ROLLBACK_IN_PROGRESS"}
               /\ elapsed <= 600

C6_Witness ==
    /\ wait.fn = "success" /\ wait.pc = "returned"
    /\ wait.result = "False"
    /\ wait.status = "UPDATE_IN_PROGRESS"
    /\ elapsed > 600

\* A wait gave up on its timeout.
TimedOut ==
    /\ wait.pc = "returned"
    /\ wait.result = "False"
    /\ \/ wait.fn = "existence"
       \/ wait.status \in ProvisionInProgress

\* C7 as stated: a wait that gives up does so no later than 15 seconds after
\* its timeout of 600 seconds.
C7_WithinOneInterval == TimedOut => elapsed <= 600 + 15

\* C7, amended: both loops return after finitely many polls whatever the
\* stack does, and a wait that gives up does so at its first poll after the
\* timeout: no later than one polling interval and the duration of one status
\* query after the 600 seconds.
C7_Terminates ==
    /\ <>(wait.pc \in {"returned", "raised"})
    /\ [](TimedOut => elapsed <= 600 + 15 + MaxLatency)

C7_Witness ==
    /\ TimedOut
    /\ wait.fn = "existence"
    /\ elapsed > 600 + 15

IsPrefix(s, t) == Len(s) <= Len(t) /\ \A i \in 1..Len(s) : s[i] = t[i]

HasStep(name) == \E i \in 1..Len(steps) : steps[i] = name

\* C9: the steps the script started are, in this order, the bucket, the
\* upload, the create or update of the CI stack, the wait on it (left out
\* only when the update reported no changes), the wait for the web stack to
\* exist, the wait on the web stack, and the probe; every step but the last
\* started has succeeded; the site is probed only after the web stack was
\* read in CREATE_COMPLETE or UPDATE_COMPLETE; and after a wait returned False
\* no step is started and the script's exit status is 1.
C9_StepOrder ==
    /\ \/ IsPrefix(steps, <<"ensure_bucket", "upload", "ci_stack", "ci_wait",
                            "web_exist", "web_wait", "probe">>)
       \/ /\ p_were_updates = "False"
          /\ IsPrefix(steps, <<"ensure_bucket", "upload", "ci_stack",
                               "web_exist", "web_wait", "probe">>)
    /\ Len(steps) <= okCount + 1
    /\ HasStep("probe") => seen["web"] \in {"CREATE_COMPLETE", "UPDATE_COMPLETE"}
    /\ (wait.pc = "returned" /\ wait.result = "False") =>
           /\ ~HasStep("probe")
           /\ wait.fn = "existence" => ~HasStep("web_wait")
           /\ (wait.fn = "success" /\ wait.stack = "ci") => ~HasStep("web_exist")
           /\ exit \in {"running", "1"}
           /\ ppc = "exited" => exit = "1"

C9_Witness ==
    /\ ppc = "exited" /\ exit = "0" /\ exc = "none"
    /\ steps = <<"ensure_bucket", "upload", "ci_stack", "web_exist", "web_wait", "probe">>
    /\ okCount = 6
    /\ seen["web"] = "UPDATE_COMPLETE"

\* C10: a run whose first probe of the site failed, and none of whose probes
\* raised, ends only after a probe found the page, with exit status 0, or
\* after more than 600 seconds of retrying, with exit status 1.
C10_ProbeRetry ==
    ( /\ ppc = "exited"
      /\ Len(probeLog) >= 1
      /\ probeLog[1] = "False"
      /\ \A i \in 1..Len(probeLog) : probeLog[i] # "raise" ) =>
        \/ probeLog[Len(probeLog)] = "True" /\ exit = "0"
        \/ exit = "1" /\ elapsed > 600

-----------------------------------------------------------------------------
(* Properties of ensure_bucket and upload_lambda_functions (SpecStore).    *)

HasStoreCall(name) == \E i \in 1..Len(eb.calls) : eb.calls[i] = name

\* What ensure_bucket establishes on return.
BucketEnsured ==
    eb.pc = "returned" => bucket.exists /\ bucket.versioning = "Enabled"

\* C11 as stated: on return the bucket exists with versioning Enabled; for a
\* bucket that existed at the call no create_bucket is issued, and for one
\* whose versioning was Enabled no put_bucket_versioning.
C11_Idempotent ==
    /\ BucketEnsured
    /\ eb.before.exists => ~HasStoreCall("create_bucket")
    /\ (eb.before.exists /\ eb.before.versioning = "Enabled") =>
           ~HasStoreCall("put_bucket_versioning")

\* C11, amended: on return the bucket exists with versioning Enabled; no
\* create_bucket is issued when head_bucket answered, and one is issued after
\* every failure of head_bucket, the bucket's absence being only one of them;
\* no put_bucket_versioning is issued for a bucket whose versioning was Enabled.
C11_EnsureBucket ==
    /\ BucketEnsured
    /\ eb.head = "ok" => ~HasStoreCall("create_bucket")
    /\ (eb.head \in {"not_found", "error"} /\ eb.pc # "create") =>
           HasStoreCall("create_bucket")
    /\ (eb.before.exists /\ eb.before.versioning = "Enabled") =>
           ~HasStoreCall("put_bucket_versioning")

C11_Witness ==
    /\ eb.pc = "returned"
    /\ ~eb.before.exists
    /\ eb.calls = <<"head_bucket", "create_bucket", "get_bucket_versioning",
                    "put_bucket_versioning">>
    /\ bucket = [exists |-> TRUE, versioning |-> "Enabled"]

\* C12: what upload_lambda_functions returns is the version this call wrote,
\* whoever else writes to the key meanwhile.
C12_ReturnsOwnVersion ==
    up.pc = "returned" => up.result = up.wrote

-----------------------------------------------------------------------------
(* Properties of terminate.py and status.py (SpecOps).                     *)

\* terminate.py ran to its end after the user confirmed.
Terminated ==
    /\ tool = "terminate"
    /\ tpc = "done"
    /\ texit = "0"
    /\ confirm = "yes"

HasOpsCall(op, on) == \E i \in 1..Len(tcalls) : tcalls[i] = Call(op, on)

\* A stack is as it was when the script started, but for the progress of an
\* operation that was in flight then.
LeftAlone(now, then) == now = then \/ then \in InProgressStatuses

\* C13 as stated: after terminate.py ran to completion with the user's
\* confirmation, the web stack, the CI stack and the artifact bucket no longer
\* exist.
C13_AllGone ==
    Terminated => webStack = NoStack /\ ciStack = NoStack /\ ~bucket.exists

\* C13, amended: after terminate.py ran to completion with the user's
\* confirmation the CI stack no longer exists, nor does the web stack when the
\* CI stack's outputs named it; the bucket is as it was.  When the CI stack
\* was not found nothing was deleted, whatever the web stack's state.
C13_StacksGone ==
    Terminated =>
        /\ ciStack = NoStack
        /\ web_stack = "web" => webStack = NoStack
        /\ bucket = atStart.bucket
        /\ web_stack = "unset" =>
               ~HasOpsCall("delete_stack", "ci") /\ ~HasOpsCall("delete_stack", "web")

C13_Witness ==
    /\ Terminated
    /\ atStart.ci = "CREATE_COMPLETE"
    /\ atStart.web = "CREATE_COMPLETE"
    /\ HasOpsCall("delete_stack", "web")
    /\ HasOpsCall("delete_stack", "ci")
    /\ bucket = [exists |-> TRUE, versioning |-> "Enabled"]

\* C14: the only calls of terminate.py that change anything are delete_stack
\* on the web stack and on the CI stack; the bucket, its versioning and the
\* object's versions are as they were.
C14_OnlyStacksDeleted ==
    tool = "terminate" =>
        /\ \A i \in 1..Len(tcalls) :
               \/ tcalls[i].op = "describe_stacks"
               \/ tcalls[i].op = "delete_stack" /\ tcalls[i].on \in {"web", "ci"}
        /\ bucket = atStart.bucket
        /\ object = <<>>

C14_Witness ==
    /\ tool = "terminate"
    /\ tpc = "done"
    /\ texit = "0"
    /\ web_stack = "None"
    /\ tcalls = <<Call("describe_stacks", "ci"), Call("describe_stacks", "ci"),
                  Call("delete_stack", "ci"), Call("describe_stacks", "ci")>>
    /\ atStart.web = "UPDATE_COMPLETE"
    /\ webStack = "UPDATE_COMPLETE"
    /\ bucket.exists

\* C15: an answer other than exactly 'yes' ends terminate.py with exit status
\* 0 before any call to the service; the stacks are left alone.
C15_NeedsYes ==
    (tool = "terminate" /\ confirm # "yes" /\ tpc # "confirm") =>
        /\ tpc = "done"
        /\ texit = "0"
        /\ tcalls = <<>>
        /\ LeftAlone(ciStack, atStart.ci)
        /\ LeftAlone(webStack, atStart.web)

C15_Witness ==
    /\ tool = "terminate"
    /\ confirm = "YES"
    /\ tpc = "done"
    /\ texit = "0"
    /\ ciStack = "CREATE_COMPLETE"
    /\ webStack = "CREATE_COMPLETE"

\* C16: status.py only describes stacks and fetches the site's page: it makes
\* no create, update or delete call, and the stacks and the bucket are as they
\* were when it started.
C16_StatusReadOnly ==
    tool = "status" =>
        /\ \A i \in 1..Len(tcalls) :
               tcalls[i] \in {Call("describe_stacks", "ci"), Call("describe_stacks", "web"),
                              Call("http_get", "site")}
        /\ LeftAlone(ciStack, atStart.ci)
        /\ LeftAlone(webStack, atStart.web)
        /\ bucket = atStart.bucket

C16_Witness ==
    /\ tool = "status"
    /\ tpc = "done"
    /\ texit = "0"
    /\ Len(tcalls) = 5
    /\ tcalls[5] = Call("http_get", "site")
    /\ ciStack = "UPDATE_COMPLETE"
    /\ webStack = "CREATE_COMPLETE"

-----------------------------------------------------------------------------
(* Properties of the build handler (SpecBuild).                            *)

\* C17: the build handler reports success only with the build artifact and
\* the template artifact uploaded, in this order; an invocation whose event
\* carries a job id and whose reporting calls succeed ends with exactly one
\* report, made with its only reporting call, and that report is a failure
\* whenever a step of the try block raised.
C17_BuildReports ==
    /\ (\E i \in 1..Len(breports) : breports[i] = "success") =>
           buploads = <<"build", "template">>
    /\ (bpc \in {"done", "escaped"} /\ bevent.hasJobId /\ bapiOk) =>
           /\ bpc = "done"
           /\ Len(breports) = 1
           /\ battempts = 1
           /\ braised # "none" => breports = <<"failure">>
           /\ braised = "none" => breports = <<"success">>
    /\ (bpc \notin {"idle", "done", "escaped"} /\ bevent.hasJobId) => breports = <<>>

C17_Witness ==
    /\ bpc = "done"
    /\ bevent = [BuildWellFormed EXCEPT !.template = FALSE]
    /\ buploads = <<"build">>
    /\ breports = <<"failure">>

-----------------------------------------------------------------------------
(* Parameter validation in the deploy handler (SpecDeploy).                *)

\* The running invocation's UserParameters cannot be decoded or lack a
\* required item; the event is a pipeline's otherwise.
BadUserParameters ==
    /\ pc \notin {"idle", "entry"}
    /\ event.hasJobId
    /\ event.hasData
    /\ ~event.decodable \/ \E i \in RequiredItems : i \notin event.keys

\* C18: an invocation with such UserParameters, in the first phase and in a
\* continuation alike, goes from get_user_params to the except clause: it
\* makes no call to the orchestration service or the artifact store, runs
\* neither phase function, and its one report, when the reporting call
\* succeeds, is a failure.
C18_BadParametersFail ==
    BadUserParameters =>
        /\ pc \in {"except", "report", "done", "raised"}
        /\ calls = <<>>
        /\ fn = NoFn
        /\ answer = NoResp
        /\ status = "unset" /\ existed = "unset" /\ were_updates = "unset"
        /\ pc = "report" => pending.kind = "failure"
        /\ pc = "done" => reports = <<"failure">>
        /\ pc = "raised" => ~apiOk /\ reports = <<>>

C18_Witness ==
    /\ BadUserParameters
    /\ event.token
    /\ event.keys = RequiredItems \ {"template_file"}
    /\ pc = "done"
    /\ reports = <<"failure">>
    /\ job = "failed"

-----------------------------------------------------------------------------
(* Configuration and the CI stack in the provision script (SpecProvision). *)

\* C19: a run with any of the four required settings missing ends with exit
\* status 1 and starts no step: no bucket, upload or stack call.
C19_ConfigRequired ==
    (ppc = "exited" /\ config # AllSet) => exit = "1" /\ steps = <<>>

HasMainCall(name) == \E i \in 1..Len(p_calls) : p_calls[i] = name

\* C20: with the CI stack found in a status other than CREATE_COMPLETE,
\* ROLLBACK_COMPLETE and UPDATE_COMPLETE the script has exited with status 1
\* and has called neither update_stack nor create_stack; create_stack is
\* called only after stack_exists returned False, update_stack only after it
\* returned True and the status read was one of the three.
C20_CiStackDecision ==
    /\ p_status \notin {"unset", "CREATE_COMPLETE", "ROLLBACK_COMPLETE", "UPDATE_COMPLETE"} =>
           ppc = "exited" /\ exit = "1" /\ p_calls = <<>>
    /\ HasMainCall("create_stack") => p_exists = "False" /\ p_status = "unset"
    /\ HasMainCall("update_stack") =>
           /\ p_exists = "True"
           /\ p_status \in {"CREATE_COMPLETE", "ROLLBACK_COMPLETE", "UPDATE_COMPLETE"}
    /\ Len(p_calls) <= 1

C20_Witness ==
    /\ p_status = "UPDATE_ROLLBACK_COMPLETE"
    /\ ppc = "exited"
    /\ exit = "1"
    /\ p_calls = <<>>
    /\ steps = <<"ensure_bucket", "upload", "ci_stack">>

-----------------------------------------------------------------------------
(* Verdicts and decisions of the two programs side by side.                *)

\* The statuses the service passes through from an accepted create or update
\* to its success.
TowardsSuccess ==
    {"CREATE_IN_PROGRESS", "CREATE_COMPLETE", "UPDATE_IN_PROGRESS",
     "UPDATE_COMPLETE_CLEANUP_IN_PROGRESS", "UPDATE_COMPLETE"}

\* C21: for a status on the way to success check_stack_update_status puts no
\* failure, and wait_for_stack_success, short of its timeout, returns no False.
C21_NoFalseFailure ==
    /\ ( /\ fn.name = "check_stack_update_status"
         /\ pc = "report"
         /\ pending.inTry
         /\ status \in TowardsSuccess ) => pending.kind # "failure"
    /\ ( /\ wait.fn = "success"
         /\ wait.pc = "returned"
         /\ wait.status \in TowardsSuccess
         /\ elapsed <= Timeout ) => wait.result # "False"

HasReport(kind) == \E i \in 1..Len(reports) : reports[i] = kind

\* C22 as stated: when the deploy handler has reported success, the web stack
\* was in CREATE_COMPLETE or UPDATE_COMPLETE at the moment of the report.
C22_SuccessMeansComplete ==
    HasReport("success") => statusAtReport \in {"CREATE_COMPLETE", "UPDATE_COMPLETE"}

\* C22, amended: success is reported by check_stack_update_status for a status
\* it read as CREATE_COMPLETE or UPDATE_COMPLETE, or by start_update_or_create
\* when the service answered that there are no updates, for a status it read
\* as any of the four it accepts, the two rolled-back ones among them.
C22_SuccessPaths ==
    HasReport("success") =>
        \/ /\ fn.name = "check_stack_update_status"
           /\ status \in {"CREATE_COMPLETE", "UPDATE_COMPLETE"}
        \/ /\ fn.name = "start_update_or_create"
           /\ answer = ClientError(NoUpdatesMsg)
           /\ status \in {"CREATE_COMPLETE", "ROLLBACK_COMPLETE", "UPDATE_COMPLETE",
                          "UPDATE_ROLLBACK_COMPLETE"}

C22_Witness ==
    /\ reports = <<"success">>
    /\ fn.name = "start_update_or_create"
    /\ status = "UPDATE_ROLLBACK_COMPLETE"
    /\ statusAtReport = "UPDATE_ROLLBACK_COMPLETE"
    /\ job = "succeeded"

\* What start_update_or_create does for a stack of which stack_exists
\* returned x and, when it exists, get_stack_status returned s.
start_update_or_create_decision(x, s) ==
    IF x = "False" THEN "create"
    ELSE IF s \in LambdaEligible THEN "update"
    ELSE "refuse"

\* __main__ of provision.py has made its decision for the CI stack.
CiDecided == p_exists = "False" \/ (p_exists = "True" /\ p_status # "unset")

\* The decision it made: it refused when it left with status 1 before any
\* create or update call.
CiDecision ==
    IF p_exists = "False" THEN "create"
    ELSE IF ppc = "exited" /\ exit = "1" /\ p_calls = <<>> THEN "refuse"
    ELSE "update"

\* C23: the provision script decides for the CI stack what
\* start_update_or_create decides for a stack in the same state.
C23_SameDecision ==
    CiDecided => CiDecision = start_update_or_create_decision(p_exists, p_status)

-----------------------------------------------------------------------------
(* The outcome of a run of the provision script (SpecProvision).           *)

\* C24: a run of the provision script ends with exit status 0 only after a
\* probe of the site found the expected page.
C24_ExitReflectsOutcome ==
    (ppc = "exited" /\ exit = "0") =>
        Len(probeLog) >= 1 /\ probeLog[Len(probeLog)] = "True"

\* C25: when the script's wait on the web stack has returned True, the
\* pipeline's deploy handler has started an operation on the web stack since
\* the script began: the status the wait read is that deploy's outcome, not
\* one left by an earlier deployment.
C25_WaitSeesThisDeploy == seen["web"] # "unset" => deployed

-----------------------------------------------------------------------------
(* terminate.py and status.py run to their end (SpecOps).                  *)

\* stack_exists(cf, ci_stack_name) returned True: the script went on to the
\* CI stack's outputs.
CiStackFound == Len(tcalls) >= 2 /\ tcalls[2] = Call(get_stack_info_call, "ci")

\* C26: terminate.py, the user having confirmed, issues delete_stack for the
\* CI stack whenever it found the CI stack; and once it has issued
\* delete_stack for the web stack, it goes on to the CI stack's deletion only
\* with the web stack gone.
C26_Teardown ==
    /\ (tool = "terminate" /\ tpc = "done" /\ confirm = "yes" /\ CiStackFound) =>
           HasOpsCall("delete_stack", "ci")
    /\ (tool = "terminate" /\ HasOpsCall("delete_stack", "web")
          /\ (tpc = "delete_ci" \/ HasOpsCall("delete_stack", "ci"))) =>
           webStack = NoStack

\* The steps of status.py up to the probe: the two existence tests, the two
\* readings of outputs, the request to the site.
StatusRunToProbe ==
    tcalls = <<Call(stack_exists_call, "ci"), Call(get_stack_info_call, "ci"),
               Call(stack_exists_call, "web"), Call(get_stack_info_call, "web"),
               Call("http_get", "site")>>

\* C28: status.py ends with exit status 0 or 1; with 0 exactly when it found
\* the CI stack, the CI stack's outputs named a web stack, it found that web
\* stack, and test_web_site returned True.
C28_StatusExit ==
    (tool = "status" /\ tpc = "done") =>
        /\ texit \in {"0", "1"}
        /\ texit = "0" <=> (StatusRunToProbe /\ web_stack = "web" /\ found = "True")

C28_Witness ==
    /\ tool = "status"
    /\ tpc = "done"
    /\ found = "False"
    /\ texit = "1"
    /\ StatusRunToProbe

-----------------------------------------------------------------------------
(* One invocation of the deploy handler among other actors (SpecRace).     *)

\* The service rejected this invocation's create or update call; "No updates
\* are to be performed." is not a rejection, there being nothing to start.
Rejected ==
    /\ answer # NoResp
    /\ answer.kind # "ok"
    /\ answer # ClientError(NoUpdatesMsg)

\* The invocation reports at most one result, and exactly one by its end when
\* the event carries a job id and the job-reporting API answers; after a
\* rejected call the one result is failure.
ReportsOnceAndTruly ==
    /\ Len(reports) <= 1
    /\ (event.hasJobId /\ apiOk /\ pc = "done") => Len(reports) = 1
    /\ Rejected => \A i \in 1..Len(reports) : reports[i] = "failure"

\* C27 as stated: with another actor changing the web stack between the
\* handler's existence test and its create or update call, the handler reports
\* exactly one result, never continuation or success for a rejected call, and
\* the handler and the other invocation do not both start an operation.
C27_SafeUnderInterleaving ==
    /\ ReportsOnceAndTruly
    /\ ~(deployed /\ answer = Ok)

\* The service accepted this invocation's call on a stack with no operation
\* in flight.
AcceptedOnSettledStack ==
    (pc \in {"update", "create"} /\ answer' = Ok) =>
        webStack \notin InProgressStatuses

\* C27, amended: the handler reports exactly one result, failure after a
\* rejected call; the service accepts its call only with no operation in
\* flight on the stack, so the two invocations' operations never overlap,
\* though both may start one, one after the other's has ended.
C27_SafeButNotExclusive == []ReportsOnceAndTruly /\ [][AcceptedOnSettledStack]_vars

C27_Witness ==
    /\ deployed
    /\ answer = Ok
    /\ existed = "True"
    /\ reports = <<"continue">>
    /\ pc = "done"

=============================================================================
